---- MODULE Spec2Model ----
(***************************************************************************)
(* selenium-grid-cleaner: the cleanup pass (GridCleaner.CheckAndCleanup,   *)
(* Cleaner.CleanPods, the sequential CleanPods) and the port-forward       *)
(* supervisor (PortForwarder.Start / Stop and its wait goroutine).         *)
(*                                                                         *)
(* Times are in milliseconds.  A goroutine is a process with a program     *)
(* counter; a blocking call is a step whose result the environment picks.  *)
(***************************************************************************)
EXTENDS Integers, Sequences, FiniteSets, TLC

\* ---------------------------------------------------------------- bounds
MaxSessions == 2
MaxParallelCfg == 2

\* ------------------------------------------------------ program constants
MaxAgeSecs == 7200
DefaultMaxParallel == 10
MsPerSec == 1000

MaxAge == MaxAgeSecs * MsPerSec
Now == 3 * MaxAge + (MsPerSec \div 2)

\* The ages the snapshots are drawn from: over the limit, exactly at it, under it.
AgeChoices == {MaxAge + MsPerSec, MaxAge, MaxAge - MsPerSec}

Variants == {"gc", "cl", "seq"}
NoOne == -1
Dispatcher == 0

VARIABLES
  variant,      \* which pass runs: "gc" CheckAndCleanup, "cl" Cleaner.CleanPods, "seq" CleanPods
  sessions,     \* the extracted sessions (seq: the status entries), in snapshot order
  maxParallel,  \* the configured MaxParallel / NewCleaner argument
  dpc,          \* the dispatcher's position
  idx,          \* the dispatcher's loop index into sessions
  sem,          \* number of tokens in the semaphore channel
  wg,           \* the WaitGroup counter
  upc,          \* each termination unit's position
  errors,       \* gc.errors / c.errors
  mutex,        \* holder of gc.mutex / c.mutex
  seen,         \* the error list as each goroutine inside addError read it
  outcome,      \* what happened to each session in this pass
  resolves,     \* resolution calls made per session
  resolved,     \* the result of each session's resolution
  deletes,      \* delete requests issued per session
  result,       \* what the pass returned
  awaits,       \* waits for a pod's removal begun per session
  cancelled,    \* whether the context passed to the pass is cancelled
  blocked       \* the goroutines inside a cluster call that gets no answer

passVars == <<variant, sessions, maxParallel, dpc, idx, sem, wg, upc, errors,
              mutex, seen, outcome, resolves, resolved, deletes, result,
              awaits, cancelled, blocked>>

\* ------------------------------------------------- the port-forward supervisor

\* bounds
MaxCalls == 4
MaxCmds == 3

Threads == {1, 2}
Cmds == 1..MaxCmds
Nil == 0

VARIABLES
  pfv,          \* which PortForwarder runs: "p4" (done channel), "mk" (readiness wait), "pf" (plain)
  mu,           \* holder of pf.mu
  running,      \* pf.running
  cmd,          \* pf.cmd: Nil or the command it points to
  ncmd,         \* commands created so far by exec.CommandContext
  proc,         \* each command's process: "none", "unstarted", "alive", "exited"
  done,         \* whether pf.done is closed
  ctxDone,      \* whether the context passed to Start is cancelled
  tpc,          \* each caller's position
  tcall,        \* the call each caller is in: "none", "Start", "Stop"
  tcmd,         \* the command a Stop in progress works on
  twhy,         \* why a Start in progress failed
  tres,         \* what each caller's last call returned
  calls,        \* calls of Start and Stop made so far
  wpc,          \* the position of each command's wait goroutine
  wtarget,      \* the command each wait goroutine read from pf.cmd
  waited,       \* whether cmd.Wait has been called on a command
  kills,        \* how often cmd.Process.Kill() was called on each command
  panicked      \* whether the process died of a panic

pfVars == <<pfv, mu, running, cmd, ncmd, proc, done, ctxDone, tpc, tcall, tcmd, twhy,
            tres, calls, wpc, wtarget, waited, kills, panicked>>

\* ------------------------------------------------------------------ main

VARIABLES
  mpc,          \* main's position: "off", "start", "inStart", "download", "client", "pass",
                \* "cancel", "wait", "exited"
  spc,          \* the shutdown goroutine's position: "off", "waiting", "stopping", "done"
  exited        \* whether the process has exited

mainVars == <<mpc, spc, exited>>

\* ------------------------------------------------------- the status fetch

\* bound
MaxRetriesCfg == 2

VARIABLES
  fvariant,     \* which getGridStatus runs: "p3" (retry loop), "gc" (one request)
  maxRetries,   \* gc.config.MaxRetries
  fctxDone,     \* whether the context passed to getGridStatus is cancelled
  fpc,          \* getGridStatus's position: "off", "loop", "done"
  fi,           \* the loop variable i
  fhist,        \* the outcome of each attempt made, in order
  lastErr,      \* lastErr
  fres          \* what getGridStatus returned

fetchVars == <<fvariant, maxRetries, fctxDone, fpc, fi, fhist, lastErr, fres>>

\* ---------------------------------------------------- waitForPodDeletion

\* bound
MaxEvents == 2

VARIABLES
  apc,          \* waitForPodDeletion's position: "off", "watch", "select", "done"
  actxDone,     \* whether the context passed to it is cancelled
  aseen,        \* the events received from watcher.ResultChan() so far
  acause,       \* the select case that ended the wait
  ares          \* what waitForPodDeletion returned

awaitVars == <<apc, actxDone, aseen, acause, ares>>

\* ----------------------------------------------------------- GetLocalURL

\* bound
MaxURLCalls == 2

VARIABLES
  localPort,    \* pf.localPort
  remoteURL,    \* the argument of GetLocalURL, as a sequence of tokens
  localURL,     \* what the last call of GetLocalURL returned
  ucalls        \* calls of GetLocalURL made so far

urlVars == <<localPort, remoteURL, localURL, ucalls>>

\* ------------------------------------------------------ parseSessionInfo

\* bounds
MaxNodes == 2
MaxSlots == 3

VARIABLES
  pvariant,     \* which parseSessionInfo runs: "gc" (GridCleaner), "cl" (Cleaner)
  status,       \* status.Value.Nodes of the snapshot
  ppc,          \* parseSessionInfo's position: "off", "call", "done"
  pres          \* what parseSessionInfo returned

parseVars == <<pvariant, status, ppc, pres>>

\* ------------------------------------------------- the cluster client

\* bounds
MaxPods == 2
MaxResolves == 2

VARIABLES
  kvariant,     \* which client runs: "gc" (kubectl), "cl" (kubernetes.Client of
                \* internal/kubernetes), "p0" (the Client of part_000)
  pods,         \* the pods of the cluster, in the order a listing returns them
  kns,          \* the configured namespace: gc.config.Namespace / c.namespace
  karg,         \* what is looked for: a node IP (gc, cl) or a session id (p0)
  kpc,          \* the caller's position: "off", "resolve", "delete", "done"
  khist,        \* what each resolution returned, in order
  kdel          \* the delete request sent to the cluster, if any

kubeVars == <<kvariant, pods, kns, karg, kpc, khist, kdel>>

\* ----------------------------------------------------- the health check

VARIABLES
  hlocal,       \* whether CheckAndCleanup was given a local snapshot file
  hresp,        \* how the grid answers the health request
  hpc,          \* CheckAndCleanup's position: "off", "health", "status", "parse",
                \* "cleanup", "done"
  hcalls,       \* the calls CheckAndCleanup has made, in order
  hres          \* what CheckAndCleanup returned

healthVars == <<hlocal, hresp, hpc, hcalls, hres>>

\* ------------------------------------------------- the cleaner instance

\* bound
MaxPasses == 2

VARIABLES
  passNo,       \* how many passes have begun on this cleaner instance
  nodeOf        \* the node each session of the snapshot sits on

runVars == <<passNo, nodeOf>>

moreVars == <<kubeVars, healthVars, runVars>>

fnVars == <<fetchVars, awaitVars, urlVars, parseVars, moreVars>>

vars == <<passVars, pfVars, mainVars, fnVars>>

\* ------------------------------------------------------------ pure helpers

Session(start, sid) == [start |-> start, sid |-> sid]

\* time.Since(session.StartTime): the age the concurrent passes compare.
Age(s) == Now - s.start

\* time.Unix(node.StartTime/1000, 0): the start time cut to whole seconds.
UnixSeconds(ms) == (ms \div MsPerSec) * MsPerSec

\* now.Sub(startTime) in the sequential CleanPods.
SeqAge(s) == Now - UnixSeconds(s.start)

\* An age test that lets every session through to the cleanup.
WithinAge_Never(s) == FALSE

\* The age test with the boundary on the wrong side.
WithinAge_Strict(s) == Age(s) < MaxAge

\* age.Seconds() <= float64(MaxAgeSecs)  /  age <= maxAge
WithinAge(s) == Age(s) <= MaxAge

\* A test that takes every entry over the lifetime, with or without a session.
SeqEligible_AnyEntry(s) == SeqAge(s) > MaxAge

\* now.Sub(startTime) > lifetime && node.SessionId != ""
SeqEligible(s) == SeqAge(s) > MaxAge /\ s.sid # ""

\* LoadConfig: a zero MaxParallel is replaced by the default.
LoadConfig(n) == IF n = 0 THEN DefaultMaxParallel ELSE n

\* NewCleaner: a non-positive maxParallel is replaced by the default.
NewCleaner(n) == IF n <= 0 THEN DefaultMaxParallel ELSE n

\* cap(sem) of make(chan struct{}, maxParallel)
Capacity == IF variant = "cl" THEN NewCleaner(maxParallel) ELSE LoadConfig(maxParallel)

N == Len(sessions)
Units == 1..N

\* A send that never blocks (a semaphore that bounds nothing).
SemHasRoom_NoBlock == TRUE

\* sem <- struct{}{} proceeds only while the channel is not full.
SemHasRoom == sem < Capacity

\* A receive that leaves the token in the channel.
Receive_Nothing(n) == n

\* <-sem takes one token out of the channel.
Receive(n) == n - 1

\* A join that does not wait.
WgZero_NoWait == TRUE

\* wg.Wait() returns only when the counter is zero.
WgZero == wg = 0

\* ------------------------------------------------------------------- Init

SeqOfLen(S, n) == [1..n -> S]

SessionLists(S) == UNION {SeqOfLen(S, n) : n \in 0..MaxSessions}

ConcurrentSessions == {Session(Now - a, "s") : a \in AgeChoices}

SeqEntries == {Session(Now - a, sid) : a \in AgeChoices, sid \in {"", "s"}}

InitPass ==
  /\ variant \in Variants
  /\ sessions \in (IF variant = "seq" THEN SessionLists(SeqEntries)
                                      ELSE SessionLists(ConcurrentSessions))
  /\ maxParallel \in (IF variant = "seq" THEN {1} ELSE (-1)..MaxParallelCfg)
  /\ dpc = "start"
  /\ idx = 1
  /\ sem = 0
  /\ wg = 0
  /\ upc = [i \in 1..Len(sessions) |-> "idle"]
  /\ errors = <<>>
  /\ mutex = NoOne
  /\ seen = [i \in 0..Len(sessions) |-> <<>>]
  /\ outcome = [i \in 1..Len(sessions) |-> "none"]
  /\ resolves = [i \in 1..Len(sessions) |-> 0]
  /\ resolved = [i \in 1..Len(sessions) |-> "none"]
  /\ deletes = [i \in 1..Len(sessions) |-> 0]
  /\ awaits = [i \in 1..Len(sessions) |-> 0]
  /\ result = [kind |-> "none", errs |-> <<>>]
  /\ cancelled = FALSE
  /\ blocked = {}

\* The supervisor as NewPortForwarder leaves it.
NewPortForwarder ==
  /\ mu = NoOne
  /\ running = FALSE
  /\ cmd = Nil
  /\ ncmd = 0
  /\ proc = [c \in Cmds |-> "none"]
  /\ done = FALSE
  /\ ctxDone = FALSE
  /\ tpc = [t \in Threads |-> "idle"]
  /\ tcall = [t \in Threads |-> "none"]
  /\ tcmd = [t \in Threads |-> Nil]
  /\ twhy = [t \in Threads |-> "none"]
  /\ tres = [t \in Threads |-> "none"]
  /\ calls = 0
  /\ wpc = [c \in Cmds |-> "none"]
  /\ wtarget = [c \in Cmds |-> Nil]
  /\ waited = [c \in Cmds |-> FALSE]
  /\ kills = [c \in Cmds |-> 0]
  /\ panicked = FALSE

\* main is not running (the pass or the supervisor is looked at alone).
NoMain ==
  /\ mpc = "off"
  /\ spc = "off"
  /\ exited = FALSE

\* getGridStatus is not running.
NoFetch ==
  /\ fvariant = "none"
  /\ maxRetries = 0
  /\ fctxDone = FALSE
  /\ fpc = "off"
  /\ fi = 0
  /\ fhist = <<>>
  /\ lastErr = "nil"
  /\ fres = [kind |-> "none"]

\* waitForPodDeletion is not running.
NoAwait ==
  /\ apc = "off"
  /\ actxDone = FALSE
  /\ aseen = <<>>
  /\ acause = "none"
  /\ ares = "none"

\* GetLocalURL is not called.
NoURL ==
  /\ localPort = 0
  /\ remoteURL = <<>>
  /\ localURL = <<>>
  /\ ucalls = 0

\* parseSessionInfo is not called.
NoParse ==
  /\ pvariant = "none"
  /\ status = <<>>
  /\ ppc = "off"
  /\ pres = [err |-> FALSE, sessions |-> <<>>]

\* No cluster client is called.
NoKube ==
  /\ kvariant = "none"
  /\ pods = <<>>
  /\ kns = ""
  /\ karg = ""
  /\ kpc = "off"
  /\ khist = <<>>
  /\ kdel = <<>>

\* The prelude of CheckAndCleanup is not looked at.
NoHealth ==
  /\ hlocal = FALSE
  /\ hresp = "none"
  /\ hpc = "off"
  /\ hcalls = <<>>
  /\ hres = "none"

\* A cleaner instance in its first pass, each session on a node of its own.
NoRun ==
  /\ passNo = 1
  /\ nodeOf = <<>>

NoMore == NoKube /\ NoHealth /\ NoRun

\* None of the functions looked at alone is running.
NoFn == NoFetch /\ NoAwait /\ NoURL /\ NoParse /\ NoMore

\* No pass is running (the supervisor is looked at alone).
NoPass ==
  /\ variant = "none"
  /\ sessions = <<>>
  /\ maxParallel = 1
  /\ dpc = "off"
  /\ idx = 1
  /\ sem = 0
  /\ wg = 0
  /\ upc = <<>>
  /\ errors = <<>>
  /\ mutex = NoOne
  /\ seen = [i \in {Dispatcher} |-> <<>>]
  /\ outcome = <<>>
  /\ resolves = <<>>
  /\ resolved = <<>>
  /\ deletes = <<>>
  /\ awaits = <<>>
  /\ result = [kind |-> "none", errs |-> <<>>]
  /\ cancelled = FALSE
  /\ blocked = {}

\* ------------------------------------------------------------ the pass

Failures == {"resolve_failed", "not_found", "delete_failed", "await_failed"}

\* What resolving a pod can give: the listing fails, it matches no pod, or it
\* yields a pod name.
GetPodNameResults == {"failed", "empty", "ok"}

\* The failure kept for a resolution that gave no pod name: "no pod found for
\* IP ..." for an empty listing, the listing's error otherwise.
ResolveError(r) == IF r = "empty" THEN "not_found" ELSE "resolve_failed"

\* A lock on the error list that excludes nobody.
MutexFree_NoLock == TRUE

\* gc.mutex.Lock() / c.mutex.Lock() proceeds only while nobody holds the mutex.
MutexFree == mutex = NoOne

\* An addError that keeps only the latest error.
addError_KeepLast(es, e) == <<e>>

\* An addError that records the error twice.
addError_Twice(es, e) == Append(Append(es, e), e)

\* gc.errors = append(gc.errors, err), es being the list as read under the mutex.
addError(es, e) == Append(es, e)

\* A dispatcher that gives up the loop after a failed resolution.
AfterResolveError_Break == "wait"

\* addError(...); continue
AfterResolveError == "loop"

Err(i, kind) == [session |-> i, kind |-> kind]

Return(kind) == [kind |-> kind, errs |-> IF kind = "error" THEN errors ELSE <<>>]

\* Whether the cluster calls of the pass are made with the context of the pass:
\* getPodName of CheckAndCleanup runs exec.Command and its deletePod is given
\* context.Background(); the Cleaner and the sequential CleanPods pass ctx on.
ObservesCancel == variant \in {"cl", "seq"}

\* A cluster call returns when the cluster answers or, for a call that gets no
\* answer, when the context it was made with is cancelled.
CanReturn(who) == who \notin blocked \/ (cancelled /\ ObservesCancel)

\* What a resolution returns: a call ended by the cancellation returns its error.
ResolveAnswers(who) == IF who \in blocked THEN {"failed"} ELSE GetPodNameResults

\* Whether a delete succeeds: a call ended by the cancellation fails.
DeleteAnswers(who) == IF who \in blocked THEN {FALSE} ELSE BOOLEAN

\* What can go wrong before the dispatch loop: the health check (gc, live grid),
\* the status fetch (gc) and parseSessionInfo (gc, cl).
PreludeOutcomes ==
  CASE variant = "gc" -> {"health_failed", "status_failed", "parse_failed", "ok"}
    [] variant = "cl" -> {"parse_failed", "ok"}
    [] OTHER -> {"ok"}

\* CheckAndCleanup / CleanPods up to the dispatch loop.
Begin ==
  /\ UNCHANGED <<pfVars, mainVars, fnVars>>
  /\ UNCHANGED <<cancelled, blocked, awaits>>
  /\ UNCHANGED seen
  /\ dpc = "start"
  /\ \E o \in PreludeOutcomes :
       IF o # "ok"
         THEN /\ dpc' = "done"
              /\ result' = Return("fatal")
         ELSE IF variant = "seq"
           THEN /\ dpc' = "loop"
                /\ UNCHANGED result
           ELSE IF N = 0
             THEN /\ dpc' = "done"
                  /\ result' = Return("ok")
             ELSE IF Capacity < 0
               THEN /\ dpc' = "done"
                    /\ result' = Return("panic")
               ELSE /\ dpc' = "loop"
                    /\ UNCHANGED result
  /\ UNCHANGED <<variant, sessions, maxParallel, idx, sem, wg, upc, errors, mutex,
                 outcome, resolves, resolved, deletes>>

\* The head of the dispatch loop: the age test.
Loop ==
  /\ UNCHANGED <<pfVars, mainVars, fnVars>>
  /\ UNCHANGED <<cancelled, blocked, awaits>>
  /\ UNCHANGED seen
  /\ variant \in {"gc", "cl"}
  /\ dpc = "loop"
  /\ IF idx > N
       THEN /\ dpc' = "wait"
            /\ UNCHANGED <<idx, wg, outcome>>
       ELSE IF WithinAge(sessions[idx])
         THEN /\ outcome' = [outcome EXCEPT ![idx] = "skipped"]
              /\ idx' = idx + 1
              /\ UNCHANGED <<dpc, wg>>
         ELSE IF variant = "gc"
           THEN /\ dpc' = "resolve"
                /\ UNCHANGED <<idx, wg, outcome>>
           ELSE /\ wg' = wg + 1
                /\ dpc' = "acquire"
                /\ UNCHANGED <<idx, outcome>>
  /\ UNCHANGED <<variant, sessions, maxParallel, sem, upc, errors, mutex,
                 resolves, resolved, deletes, result>>

\* gc: getPodName in the dispatcher, then wg.Add(1).
Resolve ==
  /\ UNCHANGED <<pfVars, mainVars, fnVars>>
  /\ UNCHANGED <<cancelled, awaits>>
  /\ CanReturn(Dispatcher)
  /\ blocked' = blocked \ {Dispatcher}
  /\ UNCHANGED seen
  /\ variant = "gc"
  /\ dpc = "resolve"
  /\ resolves' = [resolves EXCEPT ![idx] = @ + 1]
  /\ \E r \in ResolveAnswers(Dispatcher) :
       /\ resolved' = [resolved EXCEPT ![idx] = r]
       /\ IF r = "ok"
            THEN /\ wg' = wg + 1
                 /\ dpc' = "acquire"
                 /\ UNCHANGED outcome
            ELSE /\ outcome' = [outcome EXCEPT ![idx] = ResolveError(r)]
                 /\ dpc' = "adderr"
                 /\ UNCHANGED wg
  /\ UNCHANGED <<variant, sessions, maxParallel, idx, sem, upc, errors, mutex,
                 deletes, result>>

\* addError in the dispatcher: gc.mutex.Lock()
DispatcherLock ==
  /\ UNCHANGED <<pfVars, mainVars, fnVars>>
  /\ UNCHANGED <<cancelled, blocked, awaits>>
  /\ dpc = "adderr"
  /\ MutexFree
  /\ mutex' = Dispatcher
  /\ seen' = [seen EXCEPT ![Dispatcher] = errors]
  /\ dpc' = "append"
  /\ UNCHANGED <<variant, sessions, maxParallel, idx, sem, wg, upc, errors,
                 outcome, resolves, resolved, deletes, result>>

\* addError in the dispatcher: the append and the deferred Unlock, then continue.
DispatcherAppend ==
  /\ UNCHANGED <<pfVars, mainVars, fnVars>>
  /\ UNCHANGED <<cancelled, blocked, awaits>>
  /\ dpc = "append"
  /\ errors' = addError(seen[Dispatcher], Err(idx, outcome[idx]))
  /\ seen' = [seen EXCEPT ![Dispatcher] = <<>>]
  /\ mutex' = NoOne
  /\ idx' = idx + 1
  /\ dpc' = AfterResolveError
  /\ UNCHANGED <<variant, sessions, maxParallel, sem, wg, upc,
                 outcome, resolves, resolved, deletes, result>>

\* sem <- struct{}{} and the go statement that starts the unit.
Acquire ==
  /\ UNCHANGED <<pfVars, mainVars, fnVars>>
  /\ UNCHANGED <<cancelled, blocked, awaits>>
  /\ UNCHANGED seen
  /\ dpc = "acquire"
  /\ SemHasRoom
  /\ sem' = sem + 1
  /\ upc' = [upc EXCEPT ![idx] = IF variant = "gc" THEN "delete" ELSE "resolve"]
  /\ idx' = idx + 1
  /\ dpc' = "loop"
  /\ UNCHANGED <<variant, sessions, maxParallel, wg, errors, mutex,
                 outcome, resolves, resolved, deletes, result>>

\* cl: getPodName inside cleanupSession.
UnitResolve(i) ==
  /\ UNCHANGED <<pfVars, mainVars, fnVars>>
  /\ UNCHANGED <<cancelled, awaits>>
  /\ CanReturn(i)
  /\ blocked' = blocked \ {i}
  /\ UNCHANGED seen
  /\ upc[i] = "resolve"
  /\ resolves' = [resolves EXCEPT ![i] = @ + 1]
  /\ \E r \in ResolveAnswers(i) :
       /\ resolved' = [resolved EXCEPT ![i] = r]
       /\ IF r = "ok"
            THEN /\ upc' = [upc EXCEPT ![i] = "delete"]
                 /\ UNCHANGED outcome
            ELSE /\ outcome' = [outcome EXCEPT ![i] = ResolveError(r)]
                 /\ upc' = [upc EXCEPT ![i] = "adderr"]
  /\ UNCHANGED <<variant, sessions, maxParallel, dpc, idx, sem, wg, errors, mutex,
                 deletes, result>>

\* deletePod / k8sClient.DeletePod
UnitDelete(i) ==
  /\ UNCHANGED <<pfVars, mainVars, fnVars>>
  /\ UNCHANGED <<cancelled, awaits>>
  /\ CanReturn(i)
  /\ blocked' = blocked \ {i}
  /\ UNCHANGED seen
  /\ upc[i] = "delete"
  /\ deletes' = [deletes EXCEPT ![i] = @ + 1]
  /\ \E ok \in DeleteAnswers(i) :
       IF ok
         THEN IF variant = "gc"
                THEN /\ outcome' = [outcome EXCEPT ![i] = "deleted"]
                     /\ upc' = [upc EXCEPT ![i] = "release"]
                ELSE /\ upc' = [upc EXCEPT ![i] = "await"]
                     /\ UNCHANGED outcome
         ELSE /\ outcome' = [outcome EXCEPT ![i] = "delete_failed"]
              /\ upc' = [upc EXCEPT ![i] = "adderr"]
  /\ UNCHANGED <<variant, sessions, maxParallel, dpc, idx, sem, wg, errors, mutex,
                 resolves, resolved, result>>

\* cl: waitForPodDeletion
UnitAwait(i) ==
  /\ UNCHANGED <<pfVars, mainVars, fnVars>>
  /\ UNCHANGED <<cancelled, blocked>>
  /\ UNCHANGED seen
  /\ upc[i] = "await"
  /\ awaits' = [awaits EXCEPT ![i] = @ + 1]
  /\ \E ok \in BOOLEAN :
       IF ok
         THEN /\ outcome' = [outcome EXCEPT ![i] = "deleted"]
              /\ upc' = [upc EXCEPT ![i] = "release"]
         ELSE /\ outcome' = [outcome EXCEPT ![i] = "await_failed"]
              /\ upc' = [upc EXCEPT ![i] = "adderr"]
  /\ UNCHANGED <<variant, sessions, maxParallel, dpc, idx, sem, wg, errors, mutex,
                 resolves, resolved, deletes, result>>

\* addError in a unit: mutex.Lock()
UnitLock(i) ==
  /\ UNCHANGED <<pfVars, mainVars, fnVars>>
  /\ UNCHANGED <<cancelled, blocked, awaits>>
  /\ upc[i] = "adderr"
  /\ MutexFree
  /\ mutex' = i
  /\ seen' = [seen EXCEPT ![i] = errors]
  /\ upc' = [upc EXCEPT ![i] = "append"]
  /\ UNCHANGED <<variant, sessions, maxParallel, dpc, idx, sem, wg, errors,
                 outcome, resolves, resolved, deletes, result>>

\* addError in a unit: the append and the deferred Unlock.
UnitAppend(i) ==
  /\ UNCHANGED <<pfVars, mainVars, fnVars>>
  /\ UNCHANGED <<cancelled, blocked, awaits>>
  /\ upc[i] = "append"
  /\ errors' = addError(seen[i], Err(i, outcome[i]))
  /\ seen' = [seen EXCEPT ![i] = <<>>]
  /\ mutex' = NoOne
  /\ upc' = [upc EXCEPT ![i] = "release"]
  /\ UNCHANGED <<variant, sessions, maxParallel, dpc, idx, sem, wg,
                 outcome, resolves, resolved, deletes, result>>

\* defer func() { <-sem }()
UnitRelease(i) ==
  /\ UNCHANGED <<pfVars, mainVars, fnVars>>
  /\ UNCHANGED <<cancelled, blocked, awaits>>
  /\ UNCHANGED seen
  /\ upc[i] = "release"
  /\ sem' = Receive(sem)
  /\ upc' = [upc EXCEPT ![i] = "wgdone"]
  /\ UNCHANGED <<variant, sessions, maxParallel, dpc, idx, wg, errors, mutex,
                 outcome, resolves, resolved, deletes, result>>

\* defer wg.Done()
UnitDone(i) ==
  /\ UNCHANGED <<pfVars, mainVars, fnVars>>
  /\ UNCHANGED <<cancelled, blocked, awaits>>
  /\ UNCHANGED seen
  /\ upc[i] = "wgdone"
  /\ wg' = wg - 1
  /\ upc' = [upc EXCEPT ![i] = "exited"]
  /\ UNCHANGED <<variant, sessions, maxParallel, dpc, idx, sem, errors, mutex,
                 outcome, resolves, resolved, deletes, result>>

\* wg.Wait() and the verdict read from the error list.
Join ==
  /\ UNCHANGED <<pfVars, mainVars, fnVars>>
  /\ UNCHANGED <<cancelled, blocked, awaits>>
  /\ UNCHANGED seen
  /\ dpc = "wait"
  /\ WgZero
  /\ dpc' = "done"
  /\ result' = IF Len(errors) > 0 THEN Return("error") ELSE Return("ok")
  /\ UNCHANGED <<variant, sessions, maxParallel, idx, sem, wg, upc, errors, mutex,
                 outcome, resolves, resolved, deletes>>

\* seq: the loop head of the sequential CleanPods; it returns nil at the end.
SeqLoop ==
  /\ UNCHANGED <<pfVars, mainVars, fnVars>>
  /\ UNCHANGED <<cancelled, blocked, awaits>>
  /\ UNCHANGED seen
  /\ variant = "seq"
  /\ dpc = "loop"
  /\ IF idx > N
       THEN /\ dpc' = "done"
            /\ result' = Return("ok")
            /\ UNCHANGED <<idx, outcome>>
       ELSE IF SeqEligible(sessions[idx])
         THEN /\ dpc' = "resolve"
              /\ UNCHANGED <<idx, outcome, result>>
         ELSE /\ outcome' = [outcome EXCEPT ![idx] = "skipped"]
              /\ idx' = idx + 1
              /\ UNCHANGED <<dpc, result>>
  /\ UNCHANGED <<variant, sessions, maxParallel, sem, wg, upc, errors, mutex,
                 resolves, resolved, deletes>>

\* seq: GetPodNameBySessionID: an error, no pod ("") or a pod name.
SeqResolve ==
  /\ UNCHANGED <<pfVars, mainVars, fnVars>>
  /\ UNCHANGED <<cancelled, awaits>>
  /\ CanReturn(Dispatcher)
  /\ blocked' = blocked \ {Dispatcher}
  /\ UNCHANGED seen
  /\ variant = "seq"
  /\ dpc = "resolve"
  /\ resolves' = [resolves EXCEPT ![idx] = @ + 1]
  /\ \E r \in ResolveAnswers(Dispatcher) :
       /\ resolved' = [resolved EXCEPT ![idx] = r]
       /\ IF r = "ok"
            THEN /\ dpc' = "delete"
                 /\ UNCHANGED <<idx, outcome>>
            ELSE /\ outcome' = [outcome EXCEPT ![idx] = ResolveError(r)]
                 /\ idx' = idx + 1
                 /\ dpc' = "loop"
  /\ UNCHANGED <<variant, sessions, maxParallel, sem, wg, upc, errors, mutex,
                 deletes, result>>

\* seq: DeletePod; a failure is logged and the loop goes on.
SeqDelete ==
  /\ UNCHANGED <<pfVars, mainVars, fnVars>>
  /\ UNCHANGED <<cancelled, awaits>>
  /\ CanReturn(Dispatcher)
  /\ blocked' = blocked \ {Dispatcher}
  /\ UNCHANGED seen
  /\ variant = "seq"
  /\ dpc = "delete"
  /\ deletes' = [deletes EXCEPT ![idx] = @ + 1]
  /\ \E ok \in DeleteAnswers(Dispatcher) :
       outcome' = [outcome EXCEPT ![idx] = IF ok THEN "deleted" ELSE "delete_failed"]
  /\ idx' = idx + 1
  /\ dpc' = "loop"
  /\ UNCHANGED <<variant, sessions, maxParallel, sem, wg, upc, errors, mutex,
                 resolves, resolved, result>>

Next ==
  \/ Begin
  \/ Loop
  \/ Resolve
  \/ DispatcherLock
  \/ DispatcherAppend
  \/ Acquire
  \/ \E i \in Units : UnitResolve(i)
  \/ \E i \in Units : UnitDelete(i)
  \/ \E i \in Units : UnitAwait(i)
  \/ \E i \in Units : UnitLock(i)
  \/ \E i \in Units : UnitAppend(i)
  \/ \E i \in Units : UnitRelease(i)
  \/ \E i \in Units : UnitDone(i)
  \/ Join
  \/ SeqLoop
  \/ SeqResolve
  \/ SeqDelete

Init == InitPass /\ pfv = "none" /\ NewPortForwarder /\ NoMain /\ NoFn

Spec == Init /\ [][Next]_vars

\* ------------------------------------------- the pass under cancellation

\* Whether a goroutine is inside a resolution or a delete.
InCall(who) ==
  IF who = Dispatcher THEN dpc \in {"resolve", "delete"}
                      ELSE upc[who] \in {"resolve", "delete"}

\* The cluster gives no answer to the call a goroutine is in.
Hang(who) ==
  /\ UNCHANGED <<pfVars, mainVars, fnVars>>
  /\ InCall(who)
  /\ who \notin blocked
  /\ blocked' = blocked \cup {who}
  /\ UNCHANGED <<variant, sessions, maxParallel, dpc, idx, sem, wg, upc, errors, mutex,
                 seen, outcome, resolves, resolved, deletes, result, cancelled, awaits>>

\* The deadline of context.WithTimeout passes, or a signal cancels the context.
PassCancel ==
  /\ UNCHANGED <<pfVars, mainVars, fnVars>>
  /\ ~cancelled
  /\ cancelled' = TRUE
  /\ UNCHANGED <<variant, sessions, maxParallel, dpc, idx, sem, wg, upc, errors, mutex,
                 seen, outcome, resolves, resolved, deletes, result, blocked, awaits>>

NextCancel ==
  \/ Next
  \/ PassCancel
  \/ \E who \in 0..N : Hang(who)

SpecCancel == Init /\ [][NextCancel]_vars

\* ------------------------------------------ passes on one cleaner instance

\* CheckAndCleanup / CleanPods is called again on the same GridCleaner /
\* Cleaner after it returned, with the snapshot of that moment: every local of
\* the call is new, the fields of the instance are what the last pass left.
Again ==
  /\ dpc = "done"
  /\ result.kind # "panic"
  /\ passNo < MaxPasses
  /\ passNo' = passNo + 1
  /\ sessions' \in (IF variant = "seq" THEN SessionLists(SeqEntries)
                                       ELSE SessionLists(ConcurrentSessions))
  /\ dpc' = "start"
  /\ idx' = 1
  /\ sem' = 0
  /\ wg' = 0
  /\ upc' = [i \in 1..Len(sessions') |-> "idle"]
  /\ seen' = [i \in 0..Len(sessions') |-> <<>>]
  /\ outcome' = [i \in 1..Len(sessions') |-> "none"]
  /\ resolves' = [i \in 1..Len(sessions') |-> 0]
  /\ resolved' = [i \in 1..Len(sessions') |-> "none"]
  /\ deletes' = [i \in 1..Len(sessions') |-> 0]
  /\ awaits' = [i \in 1..Len(sessions') |-> 0]
  /\ result' = [kind |-> "none", errs |-> <<>>]
  /\ UNCHANGED <<variant, maxParallel, errors, mutex, cancelled, blocked>>
  /\ UNCHANGED nodeOf
  /\ UNCHANGED <<pfVars, mainVars, fetchVars, awaitVars, urlVars, parseVars,
                 kubeVars, healthVars>>

NextAgain == Next \/ Again

SpecAgain == Init /\ [][NextAgain]_vars

\* ------------------------------------------- PortForwarder.Start and Stop

PfVariants == {"p4", "mk", "pf"}

\* A lock that excludes nobody.
MuFree_NoLock == TRUE

\* pf.mu.Lock() proceeds only while nobody holds the mutex.
MuFree == mu = NoOne

\* A Start that never takes the tunnel for running.
AlreadyRunning_Never == FALSE

\* if pf.running { return nil }
AlreadyRunning == running

\* A Stop that leaves the state alone when waiting for the exit failed.
StoppedFields_KeepOnError(waitFailed) ==
  IF waitFailed THEN [running |-> running, cmd |-> cmd]
                ELSE [running |-> FALSE, cmd |-> Nil]

\* pf.cmd = nil; pf.running = false, whatever Kill and Wait returned.
StoppedFields(waitFailed) == [running |-> FALSE, cmd |-> Nil]

\* The value a caller gets back; a Stop called from inside Start returns into
\* Start, which then returns its error.
Returned(t, v) == IF tcall[t] = "Start" /\ tpc[t] \notin {"s_lock", "s_poll"} THEN "error" ELSE v

\* A caller calls pf.Start(ctx).
CallStart(t) ==
  /\ ~panicked
  /\ tpc[t] = "idle"
  /\ calls < MaxCalls
  /\ ncmd + Cardinality({u \in Threads : tpc[u] = "s_lock"}) < MaxCmds
  /\ tpc' = [tpc EXCEPT ![t] = "s_lock"]
  /\ tcall' = [tcall EXCEPT ![t] = "Start"]
  /\ twhy' = [twhy EXCEPT ![t] = "none"]
  /\ calls' = calls + 1
  /\ UNCHANGED <<pfv, mu, running, cmd, ncmd, proc, done, ctxDone, tcmd, tres,
                 wpc, wtarget, waited, panicked>>
  /\ UNCHANGED kills
  /\ UNCHANGED <<passVars, mainVars, fnVars>>

\* A caller calls pf.Stop().
CallStop(t) ==
  /\ ~panicked
  /\ tpc[t] = "idle"
  /\ calls < MaxCalls
  /\ tpc' = [tpc EXCEPT ![t] = "t_lock"]
  /\ tcall' = [tcall EXCEPT ![t] = "Stop"]
  /\ calls' = calls + 1
  /\ UNCHANGED <<pfv, mu, running, cmd, ncmd, proc, done, ctxDone, tcmd, twhy, tres,
                 wpc, wtarget, waited, panicked>>
  /\ UNCHANGED kills
  /\ UNCHANGED <<passVars, mainVars, fnVars>>

\* Start from the Lock to the readiness wait: the running test, the new
\* command, cmd.Start() and the goroutines it leaves behind.
StartEnter(t) ==
  /\ ~panicked
  /\ tpc[t] = "s_lock"
  /\ MuFree
  /\ IF AlreadyRunning
       THEN /\ tres' = [tres EXCEPT ![t] = "nil"]
            /\ twhy' = [twhy EXCEPT ![t] = "already"]
            /\ tpc' = [tpc EXCEPT ![t] = "idle"]
            /\ tcall' = [tcall EXCEPT ![t] = "none"]
            /\ UNCHANGED <<mu, running, cmd, ncmd, proc, tcmd, wpc>>
       ELSE \E spawned \in BOOLEAN :
              LET c == ncmd + 1 IN
              /\ ncmd' = c
              /\ cmd' = c
              /\ tcmd' = [tcmd EXCEPT ![t] = c]
              /\ IF spawned
                   THEN /\ proc' = [proc EXCEPT ![c] = "alive"]
                        /\ wpc' = IF pfv = "p4" THEN [wpc EXCEPT ![c] = "read"] ELSE wpc
                        /\ UNCHANGED twhy
                        /\ IF pfv = "pf"
                             THEN /\ running' = TRUE
                                  /\ tres' = [tres EXCEPT ![t] = "nil"]
                                  /\ tpc' = [tpc EXCEPT ![t] = "idle"]
                                  /\ tcall' = [tcall EXCEPT ![t] = "none"]
                                  /\ UNCHANGED mu
                             ELSE /\ mu' = t
                                  /\ tpc' = [tpc EXCEPT ![t] = "s_poll"]
                                  /\ UNCHANGED <<running, tres, tcall>>
                   ELSE /\ proc' = [proc EXCEPT ![c] = "unstarted"]
                        /\ UNCHANGED <<running, wpc>>
                        /\ IF pfv = "pf"
                             THEN /\ mu' = t
                                  /\ twhy' = [twhy EXCEPT ![t] = "spawn"]
                                  /\ tpc' = [tpc EXCEPT ![t] = "s_stop"]
                                  /\ UNCHANGED <<tres, tcall>>
                             ELSE /\ tres' = [tres EXCEPT ![t] = "error"]
                                  /\ tpc' = [tpc EXCEPT ![t] = "idle"]
                                  /\ tcall' = [tcall EXCEPT ![t] = "none"]
                                  /\ UNCHANGED <<mu, twhy>>
  /\ UNCHANGED <<pfv, done, ctxDone, calls, wtarget, waited, panicked>>
  /\ UNCHANGED kills
  /\ UNCHANGED <<passVars, mainVars, fnVars>>

\* waitForConnection: a dial succeeds, the 30 s timeout fires or the context is
\* done; on success Start sets running and returns, otherwise it calls pf.Stop().
StartPoll(t) ==
  /\ ~panicked
  /\ tpc[t] = "s_poll"
  /\ \E o \in {"ready", "timeout", "ctx"} :
       /\ o = "ready" => proc[tcmd[t]] = "alive"
       /\ o = "ctx" => ctxDone
       /\ IF o = "ready"
            THEN /\ running' = TRUE
                 /\ mu' = NoOne
                 /\ tres' = [tres EXCEPT ![t] = "nil"]
                 /\ tpc' = [tpc EXCEPT ![t] = "idle"]
                 /\ tcall' = [tcall EXCEPT ![t] = "none"]
                 /\ UNCHANGED twhy
            ELSE /\ twhy' = [twhy EXCEPT ![t] = o]
                 /\ tpc' = [tpc EXCEPT ![t] = "s_stop"]
                 /\ UNCHANGED <<running, mu, tres, tcall>>
  /\ UNCHANGED <<pfv, cmd, ncmd, proc, done, ctxDone, tcmd, calls,
                 wpc, wtarget, waited, panicked>>
  /\ UNCHANGED kills
  /\ UNCHANGED <<passVars, mainVars, fnVars>>

\* Stop from the Lock to the kill: nothing to do unless running with a command;
\* p4 clears the fields and unlocks here, mk and pf keep the mutex.
StopEnter(t) ==
  /\ ~panicked
  /\ tpc[t] \in {"t_lock", "s_stop"}
  /\ MuFree
  /\ IF ~running \/ cmd = Nil
       THEN /\ tres' = [tres EXCEPT ![t] = Returned(t, "noop")]
            /\ tpc' = [tpc EXCEPT ![t] = "idle"]
            /\ tcall' = [tcall EXCEPT ![t] = "none"]
            /\ UNCHANGED <<mu, running, cmd, tcmd>>
       ELSE /\ tcmd' = [tcmd EXCEPT ![t] = cmd]
            /\ tpc' = [tpc EXCEPT ![t] = "t_kill"]
            /\ UNCHANGED <<tres, tcall>>
            /\ IF pfv = "p4"
                 THEN /\ running' = StoppedFields(FALSE).running
                      /\ cmd' = StoppedFields(FALSE).cmd
                      /\ UNCHANGED mu
                 ELSE /\ mu' = t
                      /\ UNCHANGED <<running, cmd>>
  /\ UNCHANGED <<pfv, ncmd, proc, done, ctxDone, twhy, calls,
                 wpc, wtarget, waited, panicked>>
  /\ UNCHANGED kills
  /\ UNCHANGED <<passVars, mainVars, fnVars>>

\* cmd.Process.Kill(): a live process dies; for one that has exited the error
\* is printed and Stop goes on.
StopKill(t) ==
  /\ ~panicked
  /\ tpc[t] = "t_kill"
  /\ proc' = IF proc[tcmd[t]] = "alive" THEN [proc EXCEPT ![tcmd[t]] = "exited"] ELSE proc
  /\ tpc' = [tpc EXCEPT ![t] = "t_wait"]
  /\ UNCHANGED <<pfv, mu, running, cmd, ncmd, done, ctxDone, tcall, tcmd, twhy, tres,
                 calls, wpc, wtarget, waited, panicked>>
  /\ kills' = [kills EXCEPT ![tcmd[t]] = @ + 1]
  /\ UNCHANGED <<passVars, mainVars, fnVars>>

\* The wait for the exit.  p4: pf.done is closed or 5 s pass.  mk, pf:
\* cmd.Process.Wait() returns, with or without an error, then the fields are
\* cleared and the deferred Unlock runs.
StopWait(t) ==
  /\ ~panicked
  /\ tpc[t] = "t_wait"
  /\ IF pfv = "p4"
       THEN /\ \E how \in {"stopped", "stop_timeout"} :
                 /\ how = "stopped" => done
                 /\ tres' = [tres EXCEPT ![t] = Returned(t, how)]
            /\ UNCHANGED <<mu, running, cmd>>
       ELSE /\ proc[tcmd[t]] = "exited"
            /\ \E waitFailed \in BOOLEAN :
                 /\ running' = StoppedFields(waitFailed).running
                 /\ cmd' = StoppedFields(waitFailed).cmd
                 /\ tres' = [tres EXCEPT ![t] =
                              Returned(t, IF waitFailed THEN "stop_wait_error" ELSE "stopped")]
            /\ mu' = NoOne
  /\ tpc' = [tpc EXCEPT ![t] = "idle"]
  /\ tcall' = [tcall EXCEPT ![t] = "none"]
  /\ UNCHANGED <<pfv, ncmd, proc, done, ctxDone, tcmd, twhy, calls,
                 wpc, wtarget, waited, panicked>>
  /\ UNCHANGED kills
  /\ UNCHANGED <<passVars, mainVars, fnVars>>

\* p4, the wait goroutine: it reads pf.cmd without the mutex; a nil there is a
\* nil dereference.
WaitRead(c) ==
  /\ ~panicked
  /\ wpc[c] = "read"
  /\ IF cmd = Nil
       THEN /\ panicked' = TRUE
            /\ UNCHANGED <<wpc, wtarget>>
       ELSE /\ wtarget' = [wtarget EXCEPT ![c] = cmd]
            /\ wpc' = [wpc EXCEPT ![c] = "wait"]
            /\ UNCHANGED panicked
  /\ UNCHANGED <<pfv, mu, running, cmd, ncmd, proc, done, ctxDone, tpc, tcall, tcmd,
                 twhy, tres, calls, waited>>
  /\ UNCHANGED kills
  /\ UNCHANGED <<passVars, mainVars, fnVars>>

\* p4, the wait goroutine: cmd.Wait() returns once the process has exited (at
\* once, with an error, when the command never started or was waited on before).
WaitReturn(c) ==
  /\ ~panicked
  /\ wpc[c] = "wait"
  /\ proc[wtarget[c]] \in {"exited", "unstarted"} \/ waited[wtarget[c]]
  /\ waited' = [waited EXCEPT ![wtarget[c]] = TRUE]
  /\ wpc' = [wpc EXCEPT ![c] = "lock"]
  /\ UNCHANGED <<pfv, mu, running, cmd, ncmd, proc, done, ctxDone, tpc, tcall, tcmd,
                 twhy, tres, calls, wtarget, panicked>>
  /\ UNCHANGED kills
  /\ UNCHANGED <<passVars, mainVars, fnVars>>

\* p4, the wait goroutine: pf.mu.Lock(); pf.running = false; pf.mu.Unlock()
WaitLock(c) ==
  /\ ~panicked
  /\ wpc[c] = "lock"
  /\ MuFree
  /\ running' = FALSE
  /\ wpc' = [wpc EXCEPT ![c] = "close"]
  /\ UNCHANGED <<pfv, mu, cmd, ncmd, proc, done, ctxDone, tpc, tcall, tcmd,
                 twhy, tres, calls, wtarget, waited, panicked>>
  /\ UNCHANGED kills
  /\ UNCHANGED <<passVars, mainVars, fnVars>>

\* p4, the wait goroutine: the deferred close(pf.done); closing a closed
\* channel panics.
WaitClose(c) ==
  /\ ~panicked
  /\ wpc[c] = "close"
  /\ IF done
       THEN /\ panicked' = TRUE
            /\ UNCHANGED <<done, wpc>>
       ELSE /\ done' = TRUE
            /\ wpc' = [wpc EXCEPT ![c] = "exited"]
            /\ UNCHANGED panicked
  /\ UNCHANGED <<pfv, mu, running, cmd, ncmd, proc, ctxDone, tpc, tcall, tcmd,
                 twhy, tres, calls, wtarget, waited>>
  /\ UNCHANGED kills
  /\ UNCHANGED <<passVars, mainVars, fnVars>>

\* The subprocess exits on its own (or is killed through its context).
ProcExit(c) ==
  /\ ~panicked
  /\ proc[c] = "alive"
  /\ proc' = [proc EXCEPT ![c] = "exited"]
  /\ UNCHANGED <<pfv, mu, running, cmd, ncmd, done, ctxDone, tpc, tcall, tcmd,
                 twhy, tres, calls, wpc, wtarget, waited, panicked>>
  /\ UNCHANGED kills
  /\ UNCHANGED <<passVars, mainVars, fnVars>>

\* The context passed to Start is cancelled (a signal, a deadline).
CtxCancel ==
  /\ ~panicked
  /\ ~ctxDone
  /\ ncmd > 0
  /\ ctxDone' = TRUE
  /\ UNCHANGED <<pfv, mu, running, cmd, ncmd, proc, done, tpc, tcall, tcmd,
                 twhy, tres, calls, wpc, wtarget, waited, panicked>>
  /\ UNCHANGED kills
  /\ UNCHANGED <<passVars, mainVars, fnVars>>

StartSteps ==
  \/ \E t \in Threads : CallStart(t)
  \/ \E t \in Threads : StartEnter(t)
  \/ \E t \in Threads : StartPoll(t)
  \/ \E c \in Cmds : WaitRead(c)
  \/ \E c \in Cmds : WaitReturn(c)
  \/ \E c \in Cmds : WaitLock(c)
  \/ \E c \in Cmds : WaitClose(c)
  \/ \E c \in Cmds : ProcExit(c)
  \/ CtxCancel

StopSteps ==
  \/ \E t \in Threads : CallStop(t)
  \/ \E t \in Threads : StopEnter(t)
  \/ \E t \in Threads : StopKill(t)
  \/ \E t \in Threads : StopWait(t)

NextPF == StartSteps \/ StopSteps

InitPF == NoPass /\ pfv \in PfVariants /\ NewPortForwarder /\ NoMain /\ NoFn

\* Callers that call Start and Stop in any order, from two goroutines.
SpecPF == InitPF /\ [][NextPF]_vars

\* Callers that only call Start.
SpecPFStart == InitPF /\ [][StartSteps]_vars


\* ------------------------------------------------------------------- main

Main == 1
Shutdown == 2

\* What cleaner.CleanPods can return to main: nil, always.
CleanPodsResults == {"nil"}

\* main: pf.Start(ctx)
MainStart ==
  /\ ~exited /\ ~panicked
  /\ mpc = "start"
  /\ mpc' = "inStart"
  /\ tpc' = [tpc EXCEPT ![Main] = "s_lock"]
  /\ tcall' = [tcall EXCEPT ![Main] = "Start"]
  /\ UNCHANGED <<pfv, mu, running, cmd, ncmd, proc, done, ctxDone, tcmd, twhy, tres,
                 calls, wpc, wtarget, waited, kills, panicked>>
  /\ UNCHANGED <<spc, exited>>
  /\ UNCHANGED <<passVars, fnVars>>

\* main: Start has returned; an error is fatal (log.Fatalf exits the process).
MainStarted ==
  /\ ~exited /\ ~panicked
  /\ mpc = "inStart"
  /\ tpc[Main] = "idle"
  /\ IF tres[Main] = "nil"
       THEN mpc' = "download" /\ UNCHANGED exited
       ELSE mpc' = "exited" /\ exited' = TRUE
  /\ UNCHANGED spc
  /\ UNCHANGED <<passVars, pfVars, fnVars>>

\* main: downloader.DownloadStatus; an error is fatal.
MainDownload ==
  /\ ~exited /\ ~panicked
  /\ mpc = "download"
  /\ \E ok \in BOOLEAN :
       IF ok THEN mpc' = "client" /\ UNCHANGED exited
             ELSE mpc' = "exited" /\ exited' = TRUE
  /\ UNCHANGED spc
  /\ UNCHANGED <<passVars, pfVars, fnVars>>

\* main: kubernetes.NewClient; an error is fatal.
MainClient ==
  /\ ~exited /\ ~panicked
  /\ mpc = "client"
  /\ \E ok \in BOOLEAN :
       IF ok THEN mpc' = "pass" /\ UNCHANGED exited
             ELSE mpc' = "exited" /\ exited' = TRUE
  /\ UNCHANGED spc
  /\ UNCHANGED <<passVars, pfVars, fnVars>>

\* main: cleaner.CleanPods; an error is fatal.
MainPass ==
  /\ ~exited /\ ~panicked
  /\ mpc = "pass"
  /\ \E r \in CleanPodsResults :
       IF r = "nil" THEN mpc' = "cancel" /\ UNCHANGED exited
                    ELSE mpc' = "exited" /\ exited' = TRUE
  /\ UNCHANGED spc
  /\ UNCHANGED <<passVars, pfVars, fnVars>>

\* main: cancel()
MainCancel ==
  /\ ~exited /\ ~panicked
  /\ mpc = "cancel"
  /\ mpc' = "wait"
  /\ ctxDone' = TRUE
  /\ UNCHANGED <<pfv, mu, running, cmd, ncmd, proc, done, tpc, tcall, tcmd, twhy, tres,
                 calls, wpc, wtarget, waited, kills, panicked>>
  /\ UNCHANGED <<spc, exited>>
  /\ UNCHANGED <<passVars, fnVars>>

\* main: wg.Wait() returns once the shutdown goroutine is done; main returns.
MainExit ==
  /\ ~exited /\ ~panicked
  /\ mpc = "wait"
  /\ spc = "done"
  /\ mpc' = "exited"
  /\ exited' = TRUE
  /\ UNCHANGED spc
  /\ UNCHANGED <<passVars, pfVars, fnVars>>

\* SIGINT or SIGTERM cancels the context of signal.NotifyContext.
Interrupt ==
  /\ ~exited /\ ~panicked
  /\ ~ctxDone
  /\ ctxDone' = TRUE
  /\ UNCHANGED <<pfv, mu, running, cmd, ncmd, proc, done, tpc, tcall, tcmd, twhy, tres,
                 calls, wpc, wtarget, waited, kills, panicked>>
  /\ UNCHANGED mainVars
  /\ UNCHANGED <<passVars, fnVars>>

\* The shutdown goroutine: <-ctx.Done(), then pf.Stop()
ShutdownStop ==
  /\ ~exited /\ ~panicked
  /\ spc = "waiting"
  /\ ctxDone
  /\ spc' = "stopping"
  /\ tpc' = [tpc EXCEPT ![Shutdown] = "t_lock"]
  /\ tcall' = [tcall EXCEPT ![Shutdown] = "Stop"]
  /\ UNCHANGED <<pfv, mu, running, cmd, ncmd, proc, done, ctxDone, tcmd, twhy, tres,
                 calls, wpc, wtarget, waited, kills, panicked>>
  /\ UNCHANGED <<mpc, exited>>
  /\ UNCHANGED <<passVars, fnVars>>

\* The shutdown goroutine: pf.Stop() has returned; the deferred wg.Done()
ShutdownDone ==
  /\ ~exited /\ ~panicked
  /\ spc = "stopping"
  /\ tpc[Shutdown] = "idle"
  /\ spc' = "done"
  /\ UNCHANGED <<mpc, exited>>
  /\ UNCHANGED <<passVars, pfVars, fnVars>>

\* main, the shutdown goroutine, and the steps of Start, Stop, the wait
\* goroutine and the subprocess, which go on only while the process lives.
NextMain ==
  \/ MainStart
  \/ MainStarted
  \/ MainDownload
  \/ MainClient
  \/ MainPass
  \/ MainCancel
  \/ MainExit
  \/ Interrupt
  \/ ShutdownStop
  \/ ShutdownDone
  \/ ~exited /\ StartEnter(Main)
  \/ ~exited /\ StartPoll(Main)
  \/ ~exited /\ \E t \in Threads : StopEnter(t)
  \/ ~exited /\ StopKill(Shutdown)
  \/ ~exited /\ StopWait(Shutdown)
  \/ ~exited /\ \E c \in Cmds : WaitRead(c)
  \/ ~exited /\ \E c \in Cmds : WaitReturn(c)
  \/ ~exited /\ \E c \in Cmds : WaitLock(c)
  \/ ~exited /\ \E c \in Cmds : WaitClose(c)
  \/ ~exited /\ \E c \in Cmds : ProcExit(c)

InitMain ==
  /\ NoPass
  /\ pfv \in PfVariants
  /\ NewPortForwarder
  /\ mpc = "start"
  /\ spc = "waiting"
  /\ exited = FALSE
  /\ NoFn

\* main of the cleaner: one Start, the cleanup, one Stop from the shutdown goroutine.
SpecMain == InitMain /\ [][NextMain]_vars

\* ---------------------------------------------------------- getGridStatus

DefaultMaxRetries == 3

FetchVariants == {"p3", "gc"}

\* LoadConfig: a zero MaxRetries is replaced by the default.
LoadMaxRetries(n) == IF n = 0 THEN DefaultMaxRetries ELSE n

\* What one attempt gives: the request cannot be built, the request fails, the
\* body does not decode, or a snapshot is decoded.
AttemptResults == {"create_failed", "request_failed", "decode_failed", "ok"}

\* fmt.Errorf("failed to get grid status after %d attempts: %w", MaxRetries, lastErr)
ExhaustedError(n, last) == [kind |-> "error", attempts |-> n, wraps |-> last]

\* fmt.Errorf("failed to ...: %w", err) of the single request: no count in it.
RequestError(e) == [kind |-> "error", attempts |-> Nil, wraps |-> e]

\* part_003: one turn of the retry loop, or the return after it.
FetchLoop ==
  /\ fvariant = "p3"
  /\ fpc = "loop"
  /\ IF fi >= maxRetries
       THEN /\ fres' = ExhaustedError(maxRetries, lastErr)
            /\ fpc' = "done"
            /\ UNCHANGED <<fi, fhist, lastErr>>
       ELSE IF fctxDone
         THEN /\ fres' = [kind |-> "cancelled"]
              /\ fpc' = "done"
              /\ UNCHANGED <<fi, fhist, lastErr>>
         ELSE \E r \in AttemptResults :
                /\ fhist' = Append(fhist, r)
                /\ IF r = "ok"
                     THEN /\ fres' = [kind |-> "ok"]
                          /\ fpc' = "done"
                          /\ UNCHANGED <<fi, lastErr>>
                     ELSE /\ lastErr' = r
                          /\ fi' = fi + 1
                          /\ UNCHANGED <<fpc, fres>>
  /\ UNCHANGED <<fvariant, maxRetries, fctxDone>>
  /\ UNCHANGED <<passVars, pfVars, mainVars, awaitVars, urlVars, parseVars, moreVars>>

\* main.go: one request, whatever MaxRetries is.
FetchOnce ==
  /\ fvariant = "gc"
  /\ fpc = "loop"
  /\ \E r \in AttemptResults :
       /\ fhist' = Append(fhist, r)
       /\ fres' = IF r = "ok" THEN [kind |-> "ok"] ELSE RequestError(r)
  /\ fpc' = "done"
  /\ UNCHANGED <<fvariant, maxRetries, fctxDone, fi, lastErr>>
  /\ UNCHANGED <<passVars, pfVars, mainVars, awaitVars, urlVars, parseVars, moreVars>>

\* The context passed to getGridStatus is cancelled.
FetchCancel ==
  /\ fpc = "loop"
  /\ ~fctxDone
  /\ fctxDone' = TRUE
  /\ UNCHANGED <<fvariant, maxRetries, fpc, fi, fhist, lastErr, fres>>
  /\ UNCHANGED <<passVars, pfVars, mainVars, awaitVars, urlVars, parseVars, moreVars>>

NextFetch ==
  \/ FetchLoop
  \/ FetchOnce
  \/ FetchCancel

InitFetch ==
  /\ NoPass /\ pfv = "none" /\ NewPortForwarder /\ NoMain /\ NoAwait /\ NoURL /\ NoParse /\ NoMore
  /\ fvariant \in FetchVariants
  /\ maxRetries \in (IF fvariant = "gc" THEN {DefaultMaxRetries}
                                         ELSE {LoadMaxRetries(n) : n \in 0..MaxRetriesCfg})
  /\ fctxDone = FALSE
  /\ fpc = "loop"
  /\ fi = 0
  /\ fhist = <<>>
  /\ lastErr = "nil"
  /\ fres = [kind |-> "none"]

SpecFetch == InitFetch /\ [][NextFetch]_vars

\* ----------------------------------------------------- waitForPodDeletion

\* The types of the events a watch delivers.
EventTypes == {"Added", "Modified", "Deleted", "Bookmark", "Error"}

\* A switch that gives up at a Modified event.
OnEvent_ModifiedEnds(e) ==
  CASE e = "Deleted" -> "nil"
    [] e \in {"Error", "Modified"} -> "watch_error"
    [] OTHER -> "continue"

\* A switch that takes an Error event for the removal.
OnEvent_ErrorIsRemoval(e) == IF e \in {"Deleted", "Error"} THEN "nil" ELSE "continue"

\* switch event.Type: Deleted returns nil, Error returns an error, any other
\* type goes round the loop again.
OnEvent(e) ==
  CASE e = "Deleted" -> "nil"
    [] e = "Error" -> "watch_error"
    [] OTHER -> "continue"

\* c.k8sClient.WatchPod(ctx, podName)
AwaitWatch ==
  /\ apc = "watch"
  /\ \E ok \in BOOLEAN :
       IF ok THEN /\ apc' = "select"
                  /\ UNCHANGED <<acause, ares>>
             ELSE /\ apc' = "done"
                  /\ acause' = "no_watcher"
                  /\ ares' = "watcher_failed"
  /\ UNCHANGED <<actxDone, aseen>>
  /\ UNCHANGED <<passVars, pfVars, mainVars, fetchVars, urlVars, parseVars, moreVars>>

\* select: case <-ctx.Done()
AwaitCancelled ==
  /\ apc = "select"
  /\ actxDone
  /\ apc' = "done"
  /\ acause' = "cancelled"
  /\ ares' = "ctx_err"
  /\ UNCHANGED <<actxDone, aseen>>
  /\ UNCHANGED <<passVars, pfVars, mainVars, fetchVars, urlVars, parseVars, moreVars>>

\* select: case <-timeout
AwaitTimeout ==
  /\ apc = "select"
  /\ apc' = "done"
  /\ acause' = "timeout"
  /\ ares' = "timeout"
  /\ UNCHANGED <<actxDone, aseen>>
  /\ UNCHANGED <<passVars, pfVars, mainVars, fetchVars, urlVars, parseVars, moreVars>>

\* select: case event, ok := <-watcher.ResultChan() with the channel closed
AwaitClosed ==
  /\ apc = "select"
  /\ apc' = "done"
  /\ acause' = "closed"
  /\ ares' = "channel_closed"
  /\ UNCHANGED <<actxDone, aseen>>
  /\ UNCHANGED <<passVars, pfVars, mainVars, fetchVars, urlVars, parseVars, moreVars>>

\* select: case event, ok := <-watcher.ResultChan() with an event
AwaitEvent ==
  /\ apc = "select"
  /\ \E e \in EventTypes :
       /\ OnEvent(e) = "continue" => Len(aseen) < MaxEvents
       /\ aseen' = Append(aseen, e)
       /\ IF OnEvent(e) = "continue"
            THEN UNCHANGED <<apc, acause, ares>>
            ELSE /\ apc' = "done"
                 /\ acause' = e
                 /\ ares' = OnEvent(e)
  /\ UNCHANGED actxDone
  /\ UNCHANGED <<passVars, pfVars, mainVars, fetchVars, urlVars, parseVars, moreVars>>

\* The context passed to waitForPodDeletion is cancelled.
AwaitCtxCancel ==
  /\ apc \in {"watch", "select"}
  /\ ~actxDone
  /\ actxDone' = TRUE
  /\ UNCHANGED <<apc, aseen, acause, ares>>
  /\ UNCHANGED <<passVars, pfVars, mainVars, fetchVars, urlVars, parseVars, moreVars>>

NextAwait ==
  \/ AwaitWatch
  \/ AwaitCancelled
  \/ AwaitTimeout
  \/ AwaitClosed
  \/ AwaitEvent
  \/ AwaitCtxCancel

InitAwait ==
  /\ NoPass /\ pfv = "none" /\ NewPortForwarder /\ NoMain /\ NoFetch /\ NoURL /\ NoParse /\ NoMore
  /\ apc = "watch"
  /\ actxDone = FALSE
  /\ aseen = <<>>
  /\ acause = "none"
  /\ ares = "none"

SpecAwait == InitAwait /\ [][NextAwait]_vars

\* The wait with its timer and its watch call: WatchPod returns, and the
\* channel of time.After(2 * time.Minute) is ready from then on, so the select
\* does not leave its case out for ever.
FairAwait == SpecAwait /\ WF_vars(AwaitWatch) /\ WF_vars(AwaitTimeout)

\* ------------------------------------------------------------ GetLocalURL

\* A URL is the sequence of its pieces: the scheme, "://", the pieces of the
\* host (names, ":", ports, "[" and "]") and the path.
Schemes == {"http", "https"}
PathTokens == {"/wd/hub/status"}
Digits == {"4444", "5555"}

Hosts ==
  { <<"selenium-router">>,
    <<"selenium-router", ":", "4444">>,
    <<"localhost", ":", "4444">>,
    <<"10.0.0.7", ":", "4444">>,
    <<"[", ":", ":", "1", "]", ":", "4444">>,
    <<"selenium-router", ":", "port">> }

Paths == {<<>>, <<"/wd/hub/status">>}

RemoteURLs == {<<sc, "://">> \o h \o pa : sc \in Schemes, h \in Hosts, pa \in Paths}

\* The ports getAvailablePort can hand out.
LocalPorts == {40001, 40002}

\* The position of the last ":" of a host outside its brackets, 0 if none.
LastColon(h) ==
  LET after == {k \in 1..Len(h) : h[k] = ":" /\ \A j \in k..Len(h) : h[j] # "]"}
  IN IF after = {} THEN 0 ELSE CHOOSE k \in after : \A j \in after : j <= k

\* net/url: what follows the host's last colon is empty or decimal digits.
ValidPort(h) ==
  LET tail == SubSeq(h, LastColon(h) + 1, Len(h))
  IN LastColon(h) = 0 \/ tail = <<>> \/ (Len(tail) = 1 /\ tail[1] \in Digits)

\* url.Parse: scheme, host and path of the URL; ok is false when it fails.
Parse(u) ==
  LET rest == SubSeq(u, 3, Len(u))
      hl == CHOOSE k \in 0..Len(rest) :
              /\ \A j \in 1..k : rest[j] \notin PathTokens
              /\ k = Len(rest) \/ rest[k + 1] \in PathTokens
      host == SubSeq(rest, 1, hl)
  IN [ok |-> ValidPort(host), scheme |-> u[1], host |-> host,
      path |-> SubSeq(rest, hl + 1, Len(rest))]

\* u.String()
String(p) == <<p.scheme, "://">> \o p.host \o p.path

RECURSIVE Split(_, _)
\* strings.Split(s, sep)
Split(h, sep) ==
  IF \A k \in 1..Len(h) : h[k] # sep
    THEN <<h>>
    ELSE LET k == CHOOSE i \in 1..Len(h) : h[i] = sep /\ \A j \in 1..(i - 1) : h[j] # sep
         IN <<SubSeq(h, 1, k - 1)>> \o Split(SubSeq(h, k + 1, Len(h)), sep)

\* A conversion of the port that counts the calls into it.
Itoa_Counting(n) == ToString(n + ucalls)

\* strconv.Itoa
Itoa(n) == ToString(n)

\* PortForwarder.GetLocalURL
GetLocalURL(u, port) ==
  LET p == Parse(u)
      parts == Split(p.host, ":")
      hostname == IF Len(parts) > 1 THEN parts[1] ELSE <<"localhost">>
  IN IF ~p.ok THEN u
               ELSE String([p EXCEPT !.host = hostname \o <<":", Itoa(port)>>])

\* A caller calls pf.GetLocalURL(remoteURL).
CallGetLocalURL ==
  /\ ucalls < MaxURLCalls
  /\ localURL' = GetLocalURL(remoteURL, localPort)
  /\ ucalls' = ucalls + 1
  /\ UNCHANGED <<localPort, remoteURL>>
  /\ UNCHANGED <<passVars, pfVars, mainVars, fetchVars, awaitVars, parseVars, moreVars>>

NextURL == CallGetLocalURL

\* The supervisor after a successful Start of the plain PortForwarder.
Started ==
  /\ mu = NoOne
  /\ running = TRUE
  /\ cmd = 1
  /\ ncmd = 1
  /\ proc = [c \in Cmds |-> IF c = 1 THEN "alive" ELSE "none"]
  /\ done = FALSE
  /\ ctxDone = FALSE
  /\ tpc = [t \in Threads |-> "idle"]
  /\ tcall = [t \in Threads |-> "none"]
  /\ tcmd = [t \in Threads |-> IF t = 1 THEN 1 ELSE Nil]
  /\ twhy = [t \in Threads |-> "none"]
  /\ tres = [t \in Threads |-> IF t = 1 THEN "nil" ELSE "none"]
  /\ calls = 1
  /\ wpc = [c \in Cmds |-> "none"]
  /\ wtarget = [c \in Cmds |-> Nil]
  /\ waited = [c \in Cmds |-> FALSE]
  /\ kills = [c \in Cmds |-> 0]
  /\ panicked = FALSE

InitURL ==
  /\ NoPass /\ NoMain /\ NoFetch /\ NoAwait /\ NoParse /\ NoMore
  /\ pfv = "pf"
  /\ NewPortForwarder \/ Started
  /\ localPort \in LocalPorts
  /\ remoteURL \in RemoteURLs
  /\ localURL = <<>>
  /\ ucalls = 0

SpecURL == InitURL /\ [][NextURL]_vars

\* ------------------------------------------------------- parseSessionInfo

ParseVariants == {"gc", "cl"}

\* The node URIs of the snapshots: a pod address, the name localhost, a
\* loopback address, no host, and a URI that url.Parse rejects.
NodeURIs ==
  { <<"http", "://", "10.0.0.7", ":", "5555">>,
    <<"http", "://", "localhost", ":", "5555">>,
    <<"http", "://", "127.0.0.1", ":", "5555">>,
    <<"http", "://">>,
    <<"http", "://", "10.0.0.7", ":", "port">> }

\* The timestamps of the snapshots: one in the wire format, one not.
StartTimes == {"2024-05-01T10:00:00Z", "01/05/2024 10:00"}

\* time.Parse(time.RFC3339, ...) / time.Parse(time.RFC3339Nano, ...) succeeds.
TimeParses(t) == t = "2024-05-01T10:00:00Z"

\* A slot: whether it holds a session (slot.Session != nil, or a non-empty
\* slot.Session.SessionID) and its start timestamp.
Slots ==
  {[held |-> FALSE, started |-> ""]} \cup {[held |-> TRUE, started |-> t] : t \in StartTimes}

\* The node list with the URIs u and, on node n, the slots of sl that at puts there.
Snapshot(u, sl, at) ==
  [n \in 1..Len(u) |->
     [uri |-> u[n],
      slots |-> LET mine == {k \in 1..Len(sl) : at[k] = n}
                    first == Cardinality({k \in 1..Len(sl) : at[k] < n})
                IN [k \in 1..Cardinality(mine) |-> sl[first + k]]]]

\* The node lists of at most MaxNodes nodes with at most MaxSlots slots in all.
IsSnapshot(st) ==
  \E n \in 0..MaxNodes, m \in 0..MaxSlots :
    \E at \in [1..m -> 1..n] :
      /\ \A k \in 1..(m - 1) : at[k] <= at[k + 1]
      /\ \E u \in [1..n -> NodeURIs], sl \in [1..m -> Slots] : st = Snapshot(u, sl, at)

\* slot.Session.SessionID: every session of a snapshot has its own id.
SessionID(n, k) == <<n, k>>

\* A node test that lets every node through.
InvalidNodeIP_Never(v, ip) == FALSE

\* if nodeIP == "" || nodeIP == "localhost" { continue }, in the Cleaner only.
InvalidNodeIP(v, ip) == v = "cl" /\ (ip = <<>> \/ ip = <<"localhost">>)

\* A slot loop that stops at a timestamp it cannot parse.
AfterBadTime_Break(k, len) == len + 1

\* continue: the slot loop goes on with the slot after the one at k.
AfterBadTime(k, len) == k + 1

RECURSIVE ParseSlots(_, _, _, _)
\* for _, slot := range node.Slots, from slot k on.
ParseSlots(n, slots, ip, k) ==
  IF k > Len(slots) THEN <<>>
  ELSE IF ~slots[k].held THEN ParseSlots(n, slots, ip, k + 1)
  ELSE IF ~TimeParses(slots[k].started)
    THEN ParseSlots(n, slots, ip, AfterBadTime(k, Len(slots)))
    ELSE <<[NodeIP |-> ip, StartTime |-> slots[k].started, SessionID |-> SessionID(n, k)]>>
           \o ParseSlots(n, slots, ip, k + 1)

RECURSIVE ParseNodes(_, _, _, _)
\* for _, node := range status.Value.Nodes, from node n on, acc being the
\* sessions appended so far.
ParseNodes(v, nodes, n, acc) ==
  IF n > Len(nodes) THEN [err |-> FALSE, sessions |-> acc]
  ELSE LET nodeURL == Parse(nodes[n].uri)
           nodeIP == Split(nodeURL.host, ":")[1]
       IN IF ~nodeURL.ok THEN [err |-> TRUE, sessions |-> <<>>]
          ELSE IF InvalidNodeIP(v, nodeIP) THEN ParseNodes(v, nodes, n + 1, acc)
          ELSE ParseNodes(v, nodes, n + 1, acc \o ParseSlots(n, nodes[n].slots, nodeIP, 1))

\* parseSessionInfo(status)
parseSessionInfo(v, nodes) == ParseNodes(v, nodes, 1, <<>>)

\* A caller calls parseSessionInfo(status).
CallParse ==
  /\ ppc = "call"
  /\ pres' = parseSessionInfo(pvariant, status)
  /\ ppc' = "done"
  /\ UNCHANGED <<pvariant, status>>
  /\ UNCHANGED <<passVars, pfVars, mainVars, fetchVars, awaitVars, urlVars, moreVars>>

NextParse == CallParse

InitParse ==
  /\ NoPass /\ pfv = "none" /\ NewPortForwarder /\ NoMain /\ NoFetch /\ NoAwait /\ NoURL /\ NoMore
  /\ pvariant \in ParseVariants
  /\ IsSnapshot(status)
  /\ ppc = "call"
  /\ pres = [err |-> FALSE, sessions |-> <<>>]

SpecParse == InitParse /\ [][NextParse]_vars

\* ----------------------------------------------------- the cluster client

KubeVariants == {"gc", "cl", "p0"}

\* The names of the pods, and what strings.Split(podName, "-") makes of each.
PodNames == {"selenium-node-a", "node-selenium-b", "standalone"}

Dashes(name) ==
  CASE name = "selenium-node-a" -> <<"selenium", "node", "a">>
    [] name = "node-selenium-b" -> <<"node", "selenium", "b">>
    [] OTHER -> <<name>>

Namespaces == {"selenium", "default"}

PodIPs == {"10.0.0.7", "10.0.0.8"}

\* The value of SE_SESSION_ID in the pod that runs on each address.
SessionOn(ip) == IF ip = "10.0.0.7" THEN "s7" ELSE "s8"

SessionIDs == {SessionOn(ip) : ip \in PodIPs}

Pods == {[name |-> n, ns |-> ns, ip |-> ip, sid |-> SessionOn(ip)] :
           n \in PodNames, ns \in Namespaces, ip \in PodIPs}

\* A pod name is unique within its namespace.
IsCluster(l) ==
  \E n \in 0..MaxPods :
    /\ l \in [1..n -> Pods]
    /\ \A i, j \in 1..n : (l[i].name = l[j].name /\ l[i].ns = l[j].ns) => i = j

\* Pods(namespace).List(ctx, ListOptions{FieldSelector: "status.podIP=" + podIP});
\* the namespace "" lists every namespace.
List(ns, ip) ==
  LET Match(p) == (ns = "" \/ p.ns = ns) /\ (ip = "" \/ p.ip = ip)
  IN SelectSeq(pods, Match)

RECURSIVE Rows(_)
\* The rows of kubectl get pods -o wide, one line for each pod.
Rows(l) ==
  IF l = <<>> THEN <<>>
  ELSE <<l[1].name, " ", "1/1", " ", "Running", " ", l[1].ip, "\n">> \o Rows(Tail(l))

\* The standard output of kubectl get pods -n ns -o wide --field-selector
\* status.podIP=ip: a header line and a row for each pod, or nothing at all
\* when no pod matches.
KubectlGetPods(ns, ip) ==
  IF List(ns, ip) = <<>> THEN <<>>
  ELSE <<"NAME", " ", "READY", " ", "STATUS", " ", "IP", "\n">> \o Rows(List(ns, ip))

\* strings.Fields(line)
Fields(line) == LET Word(t) == t # " " IN SelectSeq(line, Word)

Found(name) == [err |-> "nil", name |-> name]

Failed(why) == [err |-> why, name |-> ""]

\* A choice of the last pod of the listing.
First_Last(names) == names[Len(names)]

\* pods[0]
First(names) == names[1]

\* GridCleaner.getPodName: the first field of the second line of the output.
getPodName_gc(ns, ip) ==
  LET lines == Split(KubectlGetPods(ns, ip), "\n")
      fields == Fields(lines[2])
  IN IF Len(lines) < 2 THEN Failed("not_found")
     ELSE IF Len(fields) = 0 THEN Failed("invalid")
     ELSE Found(fields[1])

\* Client.GetPodsByIP: the names of the listed pods, in listing order.
GetPodsByIP(ns, ip) == [k \in 1..Len(List(ns, ip)) |-> List(ns, ip)[k].name]

\* Cleaner.getPodName: the first of the names GetPodsByIP returns.
getPodName_cl(ns, ip) ==
  IF Len(GetPodsByIP(ns, ip)) = 0 THEN Failed("not_found")
                                  ELSE Found(First(GetPodsByIP(ns, ip)))

\* Client.GetPodNameBySessionID of part_000: the first pod of any namespace
\* whose SE_SESSION_ID is the session id; "" and no error when there is none.
GetPodNameBySessionID(sid) ==
  LET Carries(p) == p.sid = sid
      l == SelectSeq(pods, Carries)
  IN IF l = <<>> THEN Found("") ELSE Found(l[1].name)

\* What the resolution of the client at hand returns when its listing succeeds.
Resolution ==
  CASE kvariant = "gc" -> getPodName_gc(kns, karg)
    [] kvariant = "cl" -> getPodName_cl(kns, karg)
    [] OTHER -> GetPodNameBySessionID(karg)

\* The namespace a delete request for the pod goes to: the configured one, or
\* in part_000 parts[len(parts)-2] of the pod name split at "-".
DeleteNamespace(name) ==
  IF kvariant = "p0" THEN Dashes(name)[Len(Dashes(name)) - 1] ELSE kns

\* Whether DeletePod sends a request at all: part_000 refuses a name without "-".
DeleteSends(name) == kvariant = "p0" => Len(Dashes(name)) >= 2

\* The caller resolves the pod, once or again.
KResolve ==
  /\ kpc = "resolve"
  /\ Len(khist) < MaxResolves
  /\ \E listed \in BOOLEAN :
       khist' = Append(khist, IF listed THEN Resolution ELSE Failed("list_failed"))
  /\ UNCHANGED <<kvariant, pods, kns, karg, kpc, kdel>>
  /\ UNCHANGED <<passVars, pfVars, mainVars, fetchVars, awaitVars, urlVars, parseVars,
                 healthVars, runVars>>

\* The caller deletes the pod its last resolution named, if it named one.
KDelete ==
  /\ kpc = "resolve"
  /\ khist # <<>>
  /\ LET r == khist[Len(khist)] IN
       kdel' = IF r.err = "nil" /\ r.name # "" /\ DeleteSends(r.name)
                 THEN <<[ns |-> DeleteNamespace(r.name), name |-> r.name]>>
                 ELSE <<>>
  /\ kpc' = "done"
  /\ UNCHANGED <<kvariant, pods, kns, karg, khist>>
  /\ UNCHANGED <<passVars, pfVars, mainVars, fetchVars, awaitVars, urlVars, parseVars,
                 healthVars, runVars>>

NextKube == KResolve \/ KDelete

InitKube ==
  /\ NoPass /\ pfv = "none" /\ NewPortForwarder /\ NoMain
  /\ NoFetch /\ NoAwait /\ NoURL /\ NoParse /\ NoHealth /\ NoRun
  /\ kvariant \in KubeVariants
  /\ IsCluster(pods)
  /\ kns \in Namespaces
  /\ karg \in (IF kvariant = "p0" THEN SessionIDs ELSE PodIPs)
  /\ kpc = "resolve"
  /\ khist = <<>>
  /\ kdel = <<>>

SpecKube == InitKube /\ [][NextKube]_vars

\* ------------------------------------------ sessions that share a node

\* A snapshot whose sessions sit on any of the nodes: SessionInfo.NodeIP is
\* the address of the node the slot belongs to, and a node has several slots.
InitSameNode ==
  /\ InitPass /\ pfv = "none" /\ NewPortForwarder /\ NoMain
  /\ NoFetch /\ NoAwait /\ NoURL /\ NoParse /\ NoKube /\ NoHealth
  /\ passNo = 1
  /\ nodeOf \in [1..Len(sessions) -> PodIPs]

SpecSameNode == InitSameNode /\ [][Next]_vars

\* ------------------------------------- the prelude of CheckAndCleanup

\* http.StatusOK
StatusOK == 200

\* How the grid answers the health request: whether the request could be
\* built and sent, the status code, whether the body decodes, value.ready.
HealthAnswers ==
  [built : BOOLEAN, sent : BOOLEAN, code : {StatusOK, 503}, decodes : BOOLEAN,
   ready : BOOLEAN]

\* A health check that does not look at value.ready.
checkGridHealth_AnyReady(r) ==
  IF ~r.built THEN "create_failed"
  ELSE IF ~r.sent THEN "request_failed"
  ELSE IF r.code # StatusOK THEN "unhealthy"
  ELSE IF ~r.decodes THEN "decode_failed"
  ELSE "nil"

\* checkGridHealth(ctx)
checkGridHealth(r) ==
  IF ~r.built THEN "create_failed"
  ELSE IF ~r.sent THEN "request_failed"
  ELSE IF r.code # StatusOK THEN "unhealthy"
  ELSE IF ~r.decodes THEN "decode_failed"
  ELSE IF ~r.ready THEN "not_ready"
  ELSE "nil"

\* if localFile == "" { checkGridHealth }: a failure ends the pass.
HealthStep ==
  /\ hpc = "health"
  /\ IF hlocal
       THEN /\ hpc' = "status"
            /\ UNCHANGED <<hcalls, hres>>
       ELSE /\ hcalls' = Append(hcalls, "health")
            /\ IF checkGridHealth(hresp) = "nil"
                 THEN hpc' = "status" /\ UNCHANGED hres
                 ELSE hpc' = "done" /\ hres' = "health_failed"
  /\ UNCHANGED <<hlocal, hresp>>
  /\ UNCHANGED <<passVars, pfVars, mainVars, fetchVars, awaitVars, urlVars, parseVars,
                 kubeVars, runVars>>

\* getGridStatus(ctx, localFile): the grid is asked, or the file is read.
StatusStep ==
  /\ hpc = "status"
  /\ hcalls' = Append(hcalls, IF hlocal THEN "read_file" ELSE "status")
  /\ \E ok \in BOOLEAN :
       IF ok THEN hpc' = "parse" /\ UNCHANGED hres
             ELSE hpc' = "done" /\ hres' = "status_failed"
  /\ UNCHANGED <<hlocal, hresp>>
  /\ UNCHANGED <<passVars, pfVars, mainVars, fetchVars, awaitVars, urlVars, parseVars,
                 kubeVars, runVars>>

\* parseSessionInfo(status), and the early return when there is no session.
ParseStep ==
  /\ hpc = "parse"
  /\ \E o \in {"failed", "empty", "sessions"} :
       CASE o = "failed" -> hpc' = "done" /\ hres' = "parse_failed"
         [] o = "empty" -> hpc' = "done" /\ hres' = "nil"
         [] OTHER -> hpc' = "cleanup" /\ UNCHANGED hres
  /\ UNCHANGED <<hlocal, hresp, hcalls>>
  /\ UNCHANGED <<passVars, pfVars, mainVars, fetchVars, awaitVars, urlVars, parseVars,
                 kubeVars, runVars>>

\* The dispatch loop over one session: within age, resolution failed, or
\* resolved and deleted (or not).
CleanupStep ==
  /\ hpc = "cleanup"
  /\ \E o \in {"skipped", "unresolved", "deleted", "undeleted"} :
       /\ hcalls' = hcalls \o (CASE o = "skipped" -> <<>>
                                 [] o = "unresolved" -> <<"resolve">>
                                 [] OTHER -> <<"resolve", "delete">>)
       /\ hres' = IF o \in {"skipped", "deleted"} THEN "nil" ELSE "errors"
  /\ hpc' = "done"
  /\ UNCHANGED <<hlocal, hresp>>
  /\ UNCHANGED <<passVars, pfVars, mainVars, fetchVars, awaitVars, urlVars, parseVars,
                 kubeVars, runVars>>

NextHealth == HealthStep \/ StatusStep \/ ParseStep \/ CleanupStep

InitHealth ==
  /\ NoPass /\ pfv = "none" /\ NewPortForwarder /\ NoMain
  /\ NoFetch /\ NoAwait /\ NoURL /\ NoParse /\ NoKube /\ NoRun
  /\ hlocal \in BOOLEAN
  /\ hresp \in HealthAnswers
  /\ hpc = "health"
  /\ hcalls = <<>>
  /\ hres = "none"

SpecHealth == InitHealth /\ [][NextHealth]_vars

\* ------------------------------------------------------- claims on the pass

\* The pass ran its dispatch loop to the verdict (no fatal prelude error, no panic).
Finished == dpc = "done" /\ result.kind \in {"ok", "error"}

\* A unit is in flight from the go statement until its body has returned and its
\* deferred slot release has run.
InFlight == {i \in Units : upc[i] \in {"resolve", "delete", "await", "adderr", "append", "release"}}

\* C1: at every moment of a pass the termination units started and not yet
\* finished number at most maxParallel, the capacity of the semaphore.
C1_InFlightBounded == InFlight # {} => Cardinality(InFlight) <= Capacity

\* C1 witness: the pool is saturated and the dispatcher waits for a slot.
C1_Saturated ==
  /\ dpc = "acquire"
  /\ Cardinality(InFlight) = Capacity
  /\ \E i \in InFlight : upc[i] = "delete"

\* The age of a session as the claims mean it: now - startTime.
TrueAge(i) == Now - sessions[i].start

\* The age the pass compares: the sequential CleanPods cuts the start time to
\* whole seconds first.
ComparedAge(i) ==
  IF variant = "seq" THEN Now - ((sessions[i].start \div MsPerSec) * MsPerSec)
                     ELSE Now - sessions[i].start

IsSession(i) == sessions[i].sid # ""

FailedSessions == {i \in Units : outcome[i] \in Failures}

\* C3: a pass returns failure exactly when a per-session resolution or
\* termination failure occurred, and the error carries every recorded error.
C3_FailureIffSessionFailed ==
  Finished =>
    /\ result.kind = "error" <=> FailedSessions # {}
    /\ result.kind = "error" =>
         /\ Len(result.errs) = Cardinality(FailedSessions)
         /\ \A i \in FailedSessions :
              \E k \in 1..Len(result.errs) : result.errs[k] = Err(i, outcome[i])

\* C4: the verdict is computed only after every dispatched unit has completed:
\* when the error list is read no unit runs and nothing can still be appended.
C4_VerdictAfterJoin ==
  (variant \in {"gc", "cl"} /\ Finished) =>
    /\ \A i \in Units : upc[i] \in {"idle", "exited"}
    /\ mutex = NoOne
    /\ result.errs = errors
    /\ wg = 0

\* C4 witness: a verdict of failure read after two units ran to completion.
C4_JoinedUnits ==
  /\ variant \in {"gc", "cl"}
  /\ Finished
  /\ result.kind = "error"
  /\ Cardinality({i \in Units : upc[i] = "exited"}) = 2

\* ------------------------------------------------- claims on the supervisor

Alive == {c \in Cmds : proc[c] = "alive"}

\* C5: a Start (part_004) whose readiness wait ended in the timeout returns an
\* error to its caller; it is never left, inside the Stop it calls, waiting for
\* the mutex that it holds itself, which nobody else can release.
C5_TimeoutStartReturns ==
  \A t \in Threads :
    ~(pfv = "p4" /\ tcall[t] = "Start" /\ twhy[t] = "timeout" /\ tpc[t] = "s_stop" /\ mu = t)

\* C6: in the Makefile's and portforwarder.go's PortForwarder the Stop that a
\* failing Start calls completes: whenever Start is inside that Stop, the mutex
\* Stop has to take is not held by Start itself.
C6_ImplicitStopCompletes ==
  \A t \in Threads :
    (pfv \in {"mk", "pf"} /\ tcall[t] = "Start" /\ tpc[t] = "s_stop") => mu # t

\* C7: when the signal goroutine calls Stop after the context is cancelled while
\* Start (part_004) is still in its readiness wait, both calls return: Stop is
\* never waiting for the mutex while Start, holding it, waits for it as well.
C7_SignalStopAndStartReturn ==
  \A t, u \in Threads :
    ~(/\ pfv = "p4"
      /\ t # u
      /\ ctxDone
      /\ tcall[t] = "Start" /\ tpc[t] = "s_stop" /\ mu = t
      /\ tcall[u] = "Stop" /\ tpc[u] = "t_lock")

\* The commands a Stop has taken over and is about to kill.
BeingKilled == {tcmd[t] : t \in {u \in Threads : tpc[u] = "t_kill"}}

\* C8: one PortForwarder never has two supervised subprocesses alive at once,
\* a subprocess that a Stop has taken over to kill it not counted.
C8_OneLiveSubprocess == Cardinality(Alive \ BeingKilled) <= 1

\* C9: neither the mutex of the outcome collection nor the mutex of the tunnel's
\* fields is held by a goroutine that is in a readiness wait or waiting for a
\* subprocess to exit: they are held only for the append or the transition.
C9_MutexOnlyForTransition ==
  /\ \A t \in Threads : mu = t => tpc[t] \notin {"s_poll", "t_kill", "t_wait"}
  /\ mutex = Dispatcher => dpc = "append"
  /\ \A i \in Units : mutex = i => upc[i] = "append"

\* C10: when a Stop that found the tunnel running returns, and no Start has made
\* a new command in between, the supervisor is stopped (running false, no
\* command held), whatever Kill and the wait for the exit gave.
C10_StopLeavesStopped ==
  [][\A t \in Threads :
       (tpc[t] = "t_wait" /\ tpc'[t] = "idle" /\ ncmd' = tcmd[t])
         => (running' = FALSE /\ cmd' = Nil)]_vars

\* A Stop whose wait for the exit timed out or failed has returned, and the
\* supervisor is stopped.
C10_StoppedAfterFailedWait ==
  \E t \in Threads :
    /\ tres[t] \in {"stop_timeout", "stop_wait_error"}
    /\ tpc[t] = "idle"
    /\ ncmd = tcmd[t]
    /\ running = FALSE
    /\ cmd = Nil

\* C11: a Start that finds the tunnel running returns nil and leaves the
\* supervisor as it was: no new command, no subprocess spawned, no wait
\* goroutine started, cmd and running unchanged, the mutex released.
C11_StartOnRunningIsNoop ==
  [][\A t \in Threads :
       (tpc[t] = "s_lock" /\ tpc'[t] = "idle" /\ running)
         => /\ tres'[t] = "nil"
            /\ running' = TRUE
            /\ cmd' = cmd
            /\ ncmd' = ncmd
            /\ proc' = proc
            /\ wpc' = wpc
            /\ done' = done
            /\ mu' = NoOne]_vars

\* A Start has returned nil because the tunnel was running, with its
\* subprocess alive and still the supervised one.
C11_ReturnedOnRunning ==
  \E t \in Threads :
    /\ tpc[t] = "idle"
    /\ twhy[t] = "already"
    /\ tres[t] = "nil"
    /\ running
    /\ cmd # Nil
    /\ proc[cmd] = "alive"
    /\ Cardinality(Alive) = 1

\* C12: a Stop that finds the tunnel not running, or without a command, returns
\* without killing anything and without changing the supervisor; and however
\* Stop calls are interleaved, no command is sent Kill more than once.
C12_StopIdempotent ==
  /\ [](\A c \in Cmds : kills[c] <= 1)
  /\ [][\A t \in Threads :
          (tcall[t] = "Stop" /\ tpc[t] = "t_lock" /\ tpc'[t] = "idle")
            => /\ ~running \/ cmd = Nil
               /\ kills' = kills
               /\ proc' = proc
               /\ running' = running
               /\ cmd' = cmd
               /\ done' = done
               /\ mu' = NoOne]_vars

\* Two Stop calls on a tunnel that was running have both returned: one killed
\* the subprocess, the other found nothing to do.
C12_TwoStopsOneKill ==
  \E t, u \in Threads : \E c \in Cmds :
    /\ t # u
    /\ tpc[t] = "idle" /\ tres[t] \in {"stopped", "stop_timeout", "stop_wait_error"}
    /\ tcmd[t] = c
    /\ tpc[u] = "idle" /\ tres[u] = "noop"
    /\ kills[c] = 1
    /\ proc[c] = "exited"

\* ----------------------------------------------------------- claims on main

\* C13: when the process exits after the tunnel was started, the shutdown
\* goroutine's pf.Stop() has run to completion.
C13_StopBeforeExit ==
  (exited /\ tres[Main] = "nil") => spc = "done"

\* ------------------------------------------------ more claims on the pass

\* The sessions an error of the given kind was recorded for.
Recorded(kind) == {i \in Units : \E k \in 1..Len(errors) : errors[k] = Err(i, kind)}

\* C14: in the concurrent passes a candidate holds a semaphore slot or has a
\* unit only after the dispatcher resolved its pod; a candidate whose
\* resolution failed never has a slot or a unit, and its failure is recorded.
C14_ResolvedBeforeSlot ==
  variant \in {"gc", "cl"} =>
    \A i \in Units :
      /\ upc[i] # "idle" => resolved[i] = "ok"
      /\ resolved[i] \in {"failed", "empty"} => upc[i] = "idle"
      /\ (Finished /\ resolved[i] \in {"failed", "empty"}) => i \in Recorded(outcome[i])

\* C15: in a finished concurrent pass a candidate for which no pod was found
\* has exactly one recorded error, the "no pod found" one, and every over-age
\* candidate of the snapshot was resolved once and, when its own resolution
\* gave a pod, had its termination attempted once.
C15_NotFoundIsolated ==
  (Finished /\ variant \in {"gc", "cl"} /\ \E i \in Units : resolved[i] = "empty") =>
    /\ \A i \in Units : resolved[i] = "empty" =>
         Cardinality({k \in 1..Len(errors) : errors[k].session = i}) = 1
           /\ i \in Recorded("not_found")
    /\ \A j \in Units : ~WithinAge(sessions[j]) =>
         /\ resolves[j] = 1
         /\ resolved[j] = "ok" => deletes[j] = 1

\* A finished pass in which no pod was found for the first candidate and the
\* pod of a later candidate was deleted.
C15_LaterCandidateDeleted ==
  /\ Finished
  /\ variant \in {"gc", "cl"}
  /\ \E i, j \in Units :
       /\ i < j
       /\ resolved[i] = "empty" /\ deletes[i] = 0
       /\ resolved[j] = "ok" /\ deletes[j] = 1 /\ outcome[j] = "deleted"
  /\ result.kind = "error"

\* C16: in the concurrent passes a session whose age is at most maxAge is never
\* resolved and never terminated, whatever the other sessions of the snapshot
\* are; a finished pass over a snapshot without an over-age session has made no
\* resolution and no termination call, started no unit, recorded no error and
\* returned success.
C16_YoungSessionsUntouched ==
  variant \in {"gc", "cl"} =>
    /\ \A i \in Units : TrueAge(i) <= MaxAge =>
         resolves[i] = 0 /\ deletes[i] = 0 /\ upc[i] = "idle"
    /\ (Finished /\ \A i \in Units : TrueAge(i) <= MaxAge) =>
         /\ result.kind = "ok"
         /\ errors = <<>>
         /\ \A i \in Units : resolves[i] = 0 /\ deletes[i] = 0 /\ upc[i] = "idle"

\* A finished pass over two sessions, none over-age and one of exactly maxAge,
\* that returned success having skipped both.
C16_NoopPass ==
  /\ Finished
  /\ variant \in {"gc", "cl"}
  /\ N = 2
  /\ \A i \in Units : TrueAge(i) <= MaxAge /\ outcome[i] = "skipped"
  /\ \E i \in Units : Age(sessions[i]) = MaxAge
  /\ result.kind = "ok"
  /\ \A i \in Units : resolves[i] = 0 /\ deletes[i] = 0

\* The positions in the error list that hold an error of session i.
ErrorsOf(i) == {k \in 1..Len(errors) : errors[k].session = i}

\* C17: at the end of a concurrent pass the error list has one entry for each
\* candidate whose resolution or termination failed, that candidate's error,
\* and none for any other session; a session whose pod was deleted is not in it.
C17_OneErrorPerFailure ==
  (Finished /\ variant \in {"gc", "cl"}) =>
    /\ Len(errors) = Cardinality(FailedSessions)
    /\ \A i \in FailedSessions :
         Cardinality(ErrorsOf(i)) = 1 /\ i \in Recorded(outcome[i])
    /\ \A i \in Units \ FailedSessions : ErrorsOf(i) = {}
    /\ \A i \in Units : outcome[i] = "deleted" => ErrorsOf(i) = {}
    /\ \A i \in Units : resolves[i] <= 1 /\ deletes[i] <= 1

\* A finished pass in which one candidate failed and another was deleted: the
\* error list holds the one failure.
C17_OneFailedOneDeleted ==
  /\ Finished
  /\ variant \in {"gc", "cl"}
  /\ \E i, j \in Units :
       /\ outcome[i] \in {"delete_failed", "await_failed"}
       /\ outcome[j] = "deleted"
       /\ errors = <<Err(i, outcome[i])>>

\* Every error that can be recorded.
AllErrs == {Err(i, kind) : i \in Units, kind \in Failures}

\* C18: the error list only grows at its end, by one element at a time: no
\* entry is removed or overwritten; and the error of every goroutine that has
\* returned from addError is in it, however the appends were interleaved.
C18_AppendOnly ==
  /\ [][errors' # errors => \E e \in AllErrs : errors' = Append(errors, e)]_vars
  /\ [](\A i \in Units :
          (upc[i] \in {"release", "wgdone", "exited"} /\ outcome[i] \in Failures)
            => i \in Recorded(outcome[i]))

\* Two units are in addError at once, one holding the mutex and one waiting
\* for it.
C18_ContendedAppend ==
  \E i, j \in Units :
    /\ i # j
    /\ upc[i] = "append" /\ mutex = i
    /\ upc[j] = "adderr"

\* C19: the semaphore holds exactly one token for each unit that was started
\* and has not yet run its deferred release, so a unit that has finished, with
\* a success or with a failure, holds none; after the join no token is left.
C19_SlotsReleased ==
  variant \in {"gc", "cl"} =>
    /\ sem = Cardinality(InFlight)
    /\ (dpc = "done" /\ result.kind \in {"ok", "error"}) => sem = 0

\* A finished pass with a semaphore of capacity one through which two units
\* went, one that failed and one that deleted its pod; the semaphore is empty.
C19_SlotReused ==
  /\ Finished
  /\ variant \in {"gc", "cl"}
  /\ Capacity = 1
  /\ sem = 0
  /\ \E i, j \in Units :
       /\ upc[i] = "exited" /\ outcome[i] \in {"delete_failed", "await_failed"}
       /\ upc[j] = "exited" /\ outcome[j] = "deleted"

\* The errors the per-session results of this pass call for.
ExpectedErrs == {Err(i, outcome[i]) : i \in FailedSessions}

\* The elements of a sequence, as a set.
Range(q) == {q[k] : k \in 1..Len(q)}

\* C20: the verdict of a finished concurrent pass and the set of errors it
\* recorded are determined by the snapshot and the per-session results alone:
\* failure exactly when some session's result is a failure, and the recorded
\* and the returned errors are the errors of those sessions, whatever the
\* order in which the units ran and appended.
C20_OrderIndependent ==
  (Finished /\ variant \in {"gc", "cl"}) =>
    /\ result.kind = (IF FailedSessions = {} THEN "ok" ELSE "error")
    /\ Range(errors) = ExpectedErrs
    /\ result.kind = "error" => Range(result.errs) = ExpectedErrs

\* A finished pass whose two units appended their errors in the reverse of the
\* snapshot order.
C20_ReverseOrder ==
  /\ Finished
  /\ variant \in {"gc", "cl"}
  /\ Len(errors) = 2
  /\ errors[1].session > errors[2].session
  /\ result.kind = "error"

\* ----------------------------------------------- claims on cancellation

\* C21: once the context of the pass is cancelled, every resolution and delete
\* in flight returns, so that the pass is never left short of its return with
\* no step to take.
C21_CancelledPassReturns == (cancelled /\ dpc # "done") => ENABLED NextCancel

\* ------------------------------------------------ claims on the status fetch

Attempts == Len(fhist)

\* C22: the fetch makes at most MaxRetries attempts, makes none after the first
\* decoded snapshot, which it returns, and when every attempt failed (and the
\* context was not what ended it) returns one error that names the number of
\* attempts and wraps the error of the last one.
C22_BoundedRetries ==
  /\ Attempts <= maxRetries
  /\ \A k \in 1..(Attempts - 1) : fhist[k] # "ok"
  /\ (fpc = "done" /\ Attempts > 0 /\ fhist[Attempts] = "ok") => fres.kind = "ok"
  /\ (fpc = "done" /\ fres.kind # "cancelled" /\ \A k \in 1..Attempts : fhist[k] # "ok")
       => fres = ExhaustedError(Attempts, fhist[Attempts])

\* ------------------------------------------- claims on waitForPodDeletion

\* C23: waitForPodDeletion returns nil exactly when a Deleted event ended the
\* wait; an Error event, a closed channel, the timeout and a cancellation each
\* return an error, the timeout an error that neither an Error event nor a
\* closed channel returns; while it waits, no Deleted or Error event has been
\* received.
C23_OnlyDeletedSucceeds ==
  /\ apc = "done" =>
       /\ ares = "nil" <=> acause = "Deleted"
       /\ acause \in {"Error", "closed", "timeout", "cancelled"} => ares \notin {"nil", "none"}
       /\ ares = "timeout" <=> acause = "timeout"
       /\ acause = "Deleted" <=> (aseen # <<>> /\ aseen[Len(aseen)] = "Deleted")
  /\ apc = "select" => \A k \in 1..Len(aseen) : aseen[k] \notin {"Deleted", "Error"}

\* C23 witness: the wait received events that are no removal, then an Error
\* event, and returned an error that is not the timeout's.
C23_ErrorEventAfterOthers ==
  /\ apc = "done"
  /\ acause = "Error"
  /\ Len(aseen) > 1
  /\ ares = "watch_error"

\* ------------------------------------------- claims on a session's cleanup

\* C24: a delete is issued only after a resolution that gave a pod, a wait for
\* the removal is begun only after a delete that succeeded, and a session is
\* taken for cleaned up only after a wait for its pod's removal.
C24_ConfirmedBeforeSuccess ==
  \A i \in 1..N :
    /\ deletes[i] > 0 => resolved[i] = "ok"
    /\ awaits[i] > 0 => (deletes[i] > 0 /\ outcome[i] # "delete_failed")
    /\ outcome[i] = "deleted" => awaits[i] > 0

\* -------------------------------------------------- claims on GetLocalURL

\* The remote URL with its host and port replaced by localhost and the local port.
Rewritten(u) ==
  String([Parse(u) EXCEPT !.host = <<"localhost", ":", ToString(localPort)>>])

\* C25: for every remote URL that parses, GetLocalURL returns it with host and
\* port replaced by localhost:<localPort>, scheme and path unchanged.
C25_HostBecomesLocalhost ==
  (ucalls > 0 /\ Parse(remoteURL).ok) => localURL = Rewritten(remoteURL)

Positions == UNION {{<<n, k>> : k \in 1..Len(status[n].slots)} : n \in 1..Len(status)}

\* The bare address of node n: the URI's host with the port stripped.
BareAddress(n) == Split(Parse(status[n].uri).host, ":")[1]

\* The slot holds a session whose start timestamp parses.
GoodSlot(pos) ==
  /\ status[pos[1]].slots[pos[2]].held
  /\ TimeParses(status[pos[1]].slots[pos[2]].started)

\* The slot holds a session whose start timestamp does not parse.
BadSlot(pos) ==
  /\ status[pos[1]].slots[pos[2]].held
  /\ ~TimeParses(status[pos[1]].slots[pos[2]].started)

\* The node is one the extraction leaves out: in the Cleaner, a node with no
\* address or with the name localhost.
SkippedNode(n) == pvariant = "cl" /\ BareAddress(n) \in {<<>>, <<"localhost">>}

\* The places of the returned list that hold the session of a slot.
PlacesOf(pos) == {i \in 1..Len(pres.sessions) : pres.sessions[i].SessionID = pos}

AllURIsParse == \A n \in 1..Len(status) : Parse(status[n].uri).ok

\* C27: a slot whose start timestamp does not parse yields nothing and makes
\* the extraction neither fail nor lose any other slot: the extraction fails
\* only for a node URI, and when it does not fail every slot with a session and
\* a parseable timestamp on a node that is not left out is in the result.
C27_BadTimestampSkippedAlone ==
  ppc = "done" =>
    /\ pres.err <=> ~AllURIsParse
    /\ \A pos \in Positions : BadSlot(pos) => PlacesOf(pos) = {}
    /\ ~pres.err =>
         \A pos \in Positions :
           (GoodSlot(pos) /\ ~SkippedNode(pos[1])) => PlacesOf(pos) # {}

\* C27 witness: a node whose second slot has a timestamp that does not parse,
\* between two slots that both came out, and another node that came out too.
C27_BadSlotBetweenGoodOnes ==
  /\ ppc = "done"
  /\ ~pres.err
  /\ \E n \in 1..Len(status) :
       /\ Len(status[n].slots) = 3
       /\ BadSlot(<<n, 2>>)
       /\ PlacesOf(<<n, 1>>) # {}
       /\ PlacesOf(<<n, 3>>) # {}

\* C28: a snapshot that was decoded is always extracted: a node URI that does
\* not parse neither fails the extraction nor costs the sessions of the other
\* nodes.
C28_MalformedNodeTolerated ==
  ppc = "done" =>
    /\ ~pres.err
    /\ \A pos \in Positions :
         (GoodSlot(pos) /\ Parse(status[pos[1]].uri).ok /\ ~SkippedNode(pos[1]))
           => PlacesOf(pos) # {}

\* The loopback addresses: the name localhost and a loopback IP.
Loopback == {<<"localhost">>, <<"127.0.0.1">>}

\* C29: no returned session is on a node whose bare address is empty or a
\* loopback address, and leaving such a node out does not fail the extraction.
C29_NoLoopbackSessions ==
  ppc = "done" =>
    /\ \A i \in 1..Len(pres.sessions) : pres.sessions[i].NodeIP \notin Loopback \cup {<<>>}
    /\ AllURIsParse => ~pres.err

\* <<node, slot>> pairs in snapshot order.
Before(a, b) == a[1] < b[1] \/ (a[1] = b[1] /\ a[2] < b[2])

\* C30: an extraction that does not fail returns one SessionInfo for each slot
\* that holds a session with a parseable start time on a node that is not left
\* out, nothing else, each with its node's bare address and its start time,
\* and in the order of the snapshot.
C30_OnePerSlotInOrder ==
  (ppc = "done" /\ ~pres.err) =>
    /\ \A pos \in Positions :
         Cardinality(PlacesOf(pos)) =
           IF GoodSlot(pos) /\ ~SkippedNode(pos[1]) THEN 1 ELSE 0
    /\ \A i \in 1..Len(pres.sessions) :
         LET e == pres.sessions[i] IN
         /\ e.SessionID \in Positions
         /\ e.NodeIP = BareAddress(e.SessionID[1])
         /\ e.StartTime = status[e.SessionID[1]].slots[e.SessionID[2]].started
    /\ \A i, j \in 1..Len(pres.sessions) :
         i < j => Before(pres.sessions[i].SessionID, pres.sessions[j].SessionID)

\* C30 witness: the Cleaner left out a localhost node that has a session with
\* a parseable start time, and returned the sessions of two slots of the
\* other node.
C30_TwoFromOneNode ==
  /\ ppc = "done"
  /\ ~pres.err
  /\ pvariant = "cl"
  /\ Len(pres.sessions) = 2
  /\ \E pos \in Positions : SkippedNode(pos[1]) /\ GoodSlot(pos)

\* ------------------------------------------------- claims on termination

\* C32: a pass whose cluster calls all return never stops short of its end,
\* whatever the configured maxParallel: the dispatcher always has a step to
\* take or a unit to wait for that can move, and the pass does not end in a
\* panic instead of returning.
C32_PassReturns ==
  /\ dpc # "done" => ENABLED Next
  /\ result.kind # "panic"

\* ------------------------------------------- claims on the cluster client

\* The pods the resolution is asked for, in listing order.
Wanted ==
  LET Asked(p) == IF kvariant = "p0" THEN p.sid = karg
                                    ELSE p.ns = kns /\ p.ip = karg
  IN SelectSeq(pods, Asked)

\* C31: a resolution whose listing succeeds returns the first pod, in listing
\* order, of those that report the address, whenever there is one; so every
\* resolution of the same listing returns the same pod.
C31_FirstInListingOrder ==
  \A k \in 1..Len(khist) :
    khist[k].err # "list_failed" =>
      IF Wanted = <<>> THEN khist[k].name = ""
                       ELSE khist[k] = Found(Wanted[1].name)

\* C31 witness: two pods report the address and two resolutions returned the
\* same one.
C31_TwoPodsOneAddress ==
  /\ kvariant \in {"gc", "cl"}
  /\ Len(Wanted) = 2
  /\ Len(khist) = 2
  /\ khist[1].err = "nil"
  /\ khist[2] = khist[1]

\* C35: a delete request names the pod the resolution found and goes to the
\* namespace that pod is in.
C35_DeleteTargetsResolvedPod ==
  \A k \in 1..Len(kdel) :
    /\ Wanted # <<>>
    /\ kdel[k] = [ns |-> Wanted[1].ns, name |-> Wanted[1].name]

\* --------------------------------------- claims on the cleaner instance

\* The pass at hand reached its verdict and none of its sessions failed.
CleanPass ==
  /\ dpc = "done"
  /\ result.kind \in {"ok", "error"}
  /\ \A i \in 1..N : outcome[i] \in {"skipped", "deleted"}

\* C33: a second pass on the same instance in which every session is within
\* age or is terminated returns success, whatever the first pass recorded.
C33_VerdictOfThisPassOnly == (passNo = 2 /\ CleanPass) => result.kind = "ok"

RECURSIVE DeletesOn(_, _)
\* The delete requests sent so far for the pod of a node, over the sessions
\* from i on: the sessions of a node resolve to the one pod that reports the
\* node's address.
DeletesOn(ip, i) ==
  IF i > N THEN 0
  ELSE (IF nodeOf[i] = ip THEN deletes[i] ELSE 0) + DeletesOn(ip, i + 1)

\* C34: in the concurrent passes no pod is sent more than one delete request.
C34_OneDeletePerPod ==
  variant \in {"gc", "cl"} => \A ip \in PodIPs : DeletesOn(ip, 1) <= 1

\* ------------------------------------------------ claims on the prelude

\* The grid answered the health request with 200 and value.ready true.
GridReady ==
  /\ hresp.built /\ hresp.sent /\ hresp.decodes
  /\ hresp.code = 200
  /\ hresp.ready

\* C36: against the live grid nothing is fetched, resolved or deleted unless
\* the health check came first and the grid answered 200 and ready; otherwise
\* CheckAndCleanup returns the health error having made no other call.
C36_HealthyBeforeAnyCall ==
  (~hlocal /\ hpc # "health") =>
    /\ hcalls[1] = "health"
    /\ IF GridReady THEN hres # "health_failed"
                    ELSE hpc = "done" /\ hres = "health_failed" /\ hcalls = <<"health">>

\* C36 witness: against the live grid a pod was resolved and deleted.
C36_DeletedAfterHealthy ==
  /\ ~hlocal
  /\ hpc = "done"
  /\ hcalls = <<"health", "status", "resolve", "delete">>

\* ----------------------------------- claims on restarting the supervisor

\* No call is in progress and no wait goroutine has a step left to take.
Settled ==
  /\ ~panicked
  /\ \A t \in Threads : tpc[t] = "idle"
  /\ \A c \in Cmds : wpc[c] \in {"none", "exited"}

\* C37: once everything the exit of the subprocess sets off has run, a
\* supervisor whose subprocess has exited does not say it is running, so that
\* the next Start spawns a new one.
C37_ExitClearsRunning ==
  (Settled /\ running /\ cmd # Nil) => proc[cmd] # "exited"

\* Start and Stop have only ever been called from one goroutine, one call
\* after the other, and the context has not been cancelled.
OneCaller == tpc[2] = "idle" /\ tres[2] = "none" /\ ~ctxDone

\* C38: over calls of Start and Stop made one after the other on one
\* PortForwarder nothing panics, and a Stop that reports the subprocess gone
\* reports it of the subprocess it killed: the wait for that subprocess (in
\* part_004 the cmd.Wait() of its wait goroutine) has returned.
C38_RestartIsClean ==
  OneCaller =>
    /\ ~panicked
    /\ (tpc[1] = "idle" /\ tres[1] = "stopped") =>
         IF pfv = "p4" THEN waited[tcmd[1]] ELSE proc[tcmd[1]] = "exited"

\* ------------------------------------- claims on the end of the wait

\* The event the wait has just received, if this step received one.
Received(e) == aseen' = Append(aseen, e)

\* C39: the wait goes on over an event that is neither Deleted nor Error,
\* ends at a Deleted or an Error event, ends for nothing but one of these
\* events, the channel closing, the timeout, the cancellation or a watch that
\* could not be opened, and it always ends.
C39_WaitsOnAndReturns ==
  /\ [][\A e \in EventTypes :
          Received(e) =>
            IF e \in {"Deleted", "Error"}
              THEN apc' = "done" /\ acause' = e
              ELSE apc' = "select" /\ ares' = ares /\ acause' = acause]_vars
  /\ [][(apc # "done" /\ apc' = "done") =>
          acause' \in {"Deleted", "Error", "closed", "timeout", "cancelled", "no_watcher"}]_vars
  /\ <>(apc = "done")

\* C39 witness: the wait went over two events that are no removal and ended
\* at the timeout.
C39_TimeoutAfterOtherEvents ==
  /\ apc = "done"
  /\ acause = "timeout"
  /\ Len(aseen) >= 2
  /\ \A k \in 1..Len(aseen) : aseen[k] \in {"Added", "Modified", "Bookmark"}

\* ------------------------------------- claims on the sequential CleanPods

\* C40: the sequential CleanPods never resolves or deletes for an entry with
\* an empty session id, sends no delete when the resolution named no pod or
\* failed, and goes through every entry whatever happened to the ones before:
\* at its end each entry was skipped or resolved once, and it returns nil.
C40_SeqSkipsEmptyAndGoesOn ==
  variant = "seq" =>
    /\ \A i \in Units : sessions[i].sid = "" => resolves[i] = 0 /\ deletes[i] = 0
    /\ \A i \in Units : deletes[i] > 0 => resolved[i] = "ok"
    /\ dpc = "done" =>
         /\ result.kind = "ok"
         /\ \A i \in Units :
              IF sessions[i].sid # "" /\ ComparedAge(i) > MaxAge
                THEN resolves[i] = 1 /\ deletes[i] = (IF resolved[i] = "ok" THEN 1 ELSE 0)
                ELSE outcome[i] = "skipped"

\* C40 witness: no pod carried the session id of the first entry, and the
\* second entry, over the lifetime with an empty session id, was passed over.
C40_EmptyNameThenEmptyId ==
  /\ variant = "seq"
  /\ dpc = "done"
  /\ N = 2
  /\ resolved[1] = "empty" /\ deletes[1] = 0
  /\ sessions[2].sid = "" /\ ComparedAge(2) > MaxAge /\ outcome[2] = "skipped"

====
